---- MODULE Spec2Model ----
(***************************************************************************)
(* MetaDataStore (src/unnamed/part_000): the read cache for checkpoints    *)
(* and log segments, its worker threads, the expiration / retention /      *)
(* log pruning pass and the completion timeout.                            *)
(*                                                                         *)
(* Every block of code that runs with mMutex held is one action; the       *)
(* places where a worker runs with the mutex released (open/read in Read,  *)
(* close/unlink at the end of a pass) are actions of their own, so that    *)
(* the other threads interleave with them as they do in the program.       *)
(***************************************************************************)
EXTENDS Integers, Sequences, FiniteSets, TLC

\* ------------------------------------------------------------------ bounds
\* Log sequence numbers used by the callers are 0..MaxSeq.
MaxSeq == 2
\* Number of files (checkpoints and log segments) registered in one behaviour.
MaxFiles == 3
\* Number of reads Handle accepts in one behaviour.
MaxOps == 1
\* Largest threadCount given to SetParameters.
MaxWorkers == 2
\* Largest maxCheckpointsToKeepCount given to SetParameters.
MaxKeep == 1
\* The event loop's clock stops advancing after MaxNow seconds.
MaxNow == 61

\* ------------------------------------------------------- program constants
\* mMaxInactiveTime(60)
kMaxInactiveTime == 60
\* mMaxCheckpointsToKeepCount(16)
kMaxCheckpointsToKeepCount == 16
\* errno values (Linux)
ENOENT == 2
EIO == 5
EFAULT == 14
EINVAL == 22
ECANCELED == 125

Seqs == 0..MaxSeq
WorkerIds == 0..(MaxWorkers - 1)
\* Seconds by which the event loop's clock has moved when Timeout polls it:
\* not at all, or past the inactivity threshold.
ClockSteps == {0, kMaxInactiveTime + 1}
\* readPos values of the callers.
ReadPositions == {0, 1}

VARIABLES
    mWorkersPtr,                \* TRUE when the worker array is allocated
    mWorkersCount,
    mDoneCount,
    mStopFlag,
    mDoneQueue,                 \* sequence of op ids
    mCheckpoints,               \* logSeq -> Entry
    mLogSegments,               \* startSeq -> Entry
    mCheckpointsLru,            \* sequence of keys, the head first
    mLogSegmentsLru,
    mMinLogSeq,
    mPruneLogsFlag,
    mPendingDeleteCount,
    mMaxCheckpointsToKeepCount,
    mCurThreadIdx,
    mPendingCount,
    mNow,
    mQueue,                     \* worker -> its queue of op ids
    mCond,                      \* worker -> a Notify reached it while it waits
    wPc,                        \* worker -> where the thread is in Run
    wCur,                       \* worker -> the op it has in Read (0: none)
    theDeleteList,              \* worker -> files collected for unlink
    theCloseList,               \* worker -> descriptors collected for close
    ops,                        \* op id -> the MetaReadMetaData the store holds
    nextOp,                     \* the id of the next op Handle accepts
    submitted,                  \* op ids given to submit_request, in order
    registered,                 \* files ever registered: <<kind, seq>>
    shutIdx,                    \* Shutdown: the worker it joins (-1: not in Shutdown)
    rdFd,                       \* Read on one entry: its mFd
    rdOffset,                   \* the file offset of that descriptor
    rdReads,                    \* the number of reads made on the entry
    rdLast,                     \* the last read: the op and the bytes it got
    gMetaServerSM,              \* the MetaServerSM object, the ops and commands it holds
    fault                       \* "none", or the failed assertion / undefined behaviour

vars == <<mWorkersPtr, mWorkersCount, mDoneCount, mStopFlag, mDoneQueue,
          mCheckpoints, mLogSegments, mCheckpointsLru, mLogSegmentsLru,
          mMinLogSeq, mPruneLogsFlag, mPendingDeleteCount,
          mMaxCheckpointsToKeepCount, mCurThreadIdx, mPendingCount, mNow,
          mQueue, mCond, wPc, wCur, theDeleteList, theCloseList,
          ops, nextOp, submitted, registered, fault,
          shutIdx, rdFd, rdOffset, rdReads, rdLast, gMetaServerSM>>

\* The descriptor of one entry and the reads made on it.
rdVars == <<rdFd, rdOffset, rdReads, rdLast>>
\* The store without Shutdown's position.
storeVars == <<mWorkersPtr, mWorkersCount, mDoneCount, mStopFlag, mDoneQueue,
               mCheckpoints, mLogSegments, mCheckpointsLru, mLogSegmentsLru,
               mMinLogSeq, mPruneLogsFlag, mPendingDeleteCount,
               mMaxCheckpointsToKeepCount, mCurThreadIdx, mPendingCount, mNow,
               mQueue, mCond, wPc, wCur, theDeleteList, theCloseList,
               ops, nextOp, submitted, registered, fault>>

workerVars == <<mQueue, mCond, wPc, wCur, theDeleteList, theCloseList>>
tableVars == <<mCheckpoints, mLogSegments, mCheckpointsLru, mLogSegmentsLru>>
pruneVars == <<mMinLogSeq, mPruneLogsFlag, mPendingDeleteCount>>
doneVars == <<mDoneCount, mDoneQueue>>
lifeVars == <<mWorkersPtr, mWorkersCount, mStopFlag>>

\* ----------------------------------------------------------------- helpers
SetMin(S) == CHOOSE x \in S : \A y \in S : x <= y
SetMax(S) == CHOOSE x \in S : \A y \in S : y <= x

RECURSIVE SortedSeq(_)
SortedSeq(S) == IF S = {} THEN <<>> ELSE <<SetMin(S)>> \o SortedSeq(S \ {SetMin(S)})

\* std::map::erase
Erase(tbl, k) == [x \in DOMAIN tbl \ {k} |-> tbl[x]]
\* std::map::insert of a key that is not in the map
Insert(tbl, k, e) == [x \in DOMAIN tbl \cup {k} |-> IF x = k THEN e ELSE tbl[x]]

\* The file of an entry and the descriptor open() gives for it.  Descriptors
\* 0..2 belong to the process, so open() returns a positive number; which
\* one is immaterial, each file gets its own.
FileOf(cpFlag, k) == <<IF cpFlag THEN "chkpt" ELSE "log", k>>
FdOf(cpFlag, k) == IF cpFlag THEN k + 1 ELSE MaxSeq + k + 2

\* Entry::Entry
Entry(inLogSeq, inLogEndSeq, inThreadIdx) ==
    [mLogSeq |-> inLogSeq, mLogEndSeq |-> inLogEndSeq, mThreadIdx |-> inThreadIdx,
     mFd |-> -1, mUseCount |-> 0, mAccessTime |-> 0, mPendingDeleteFlag |-> FALSE]

\* QCDLListOp: Remove, and Insert(node, after), which unlinks the node and
\* links it right after the given one.  The list head (inLru) is the sentinel:
\* Insert(node, inLru) puts the node first, Insert(node, GetPrev(inLru)) last.
ListRemove(lru, k) == SelectSeq(lru, LAMBDA x : x # k)
ListInsertFirst(lru, k) == <<k>> \o ListRemove(lru, k)
ListInsertLast(lru, k) == Append(ListRemove(lru, k), k)

\* Entry::Expire, the test
EntryExpireIdleOnly(e, inExpireTime) ==
    e.mAccessTime < inExpireTime \/ e.mFd < 0

EntryExpire(e, inExpireTime) ==
    e.mUseCount <= 0 /\ (e.mAccessTime < inExpireTime \/ e.mFd < 0)

\* Entry::UpdateLru, the list part
UpdateLruList(e, k, lru) ==
    IF e.mUseCount <= 0 /\ e.mFd < 0
    THEN IF e.mPendingDeleteFlag THEN ListInsertFirst(lru, k) ELSE ListRemove(lru, k)
    ELSE ListInsertLast(lru, k)

\* Entry::IsInUse
IsInUse(e) == 0 < e.mFd \/ e.mUseCount <= 0

\* =================================================== MetaServerSM.cc
\* The connection state machine gMetaServerSM.  All of it runs on the
\* event-loop thread: every event handler is one step.
EAGAIN == 11
EHOSTUNREACH == 113
EBADCLUSTERKEY == 1006
kMaxPendingOpsDefault == 96

\* The budget of a behaviour of the connection: ops submitted through
\* EnqueueOp or made by the handshake, server commands in execution, lost
\* chunk directories of a hello, generations and sequence numbers.
MaxSmOps == 1
MaxCmds == 1
MaxLostDirs == 1
MaxGen == 4
MaxCmdSeq == 5
OpIds == 1..(MaxSmOps + MaxLostDirs)
\* The commands in execution when the order of their responses is looked at.
MaxAuthCmds == 2
CmdIds == 1..(IF MaxCmds < MaxAuthCmds THEN MaxAuthCmds ELSE MaxCmds)

\* No hello op, no op in flight, no command in a slot.
NoHello == [seq |-> 0, resumeStep |-> 0, lostChunkDirs |-> 0,
            reqShortRpcFmtFlag |-> FALSE]
NoOp == [kind |-> "none", id |-> 0, status |-> 0]
NoCmd == [generation |-> 0, heartbeat |-> FALSE, state |-> "free"]
NoKfsOp == [noReply |-> FALSE, corrupt |-> FALSE, state |-> "free"]

\* The object after its constructor and SetMetaInfo.  Times are kept as what
\* the code compares: recvCmdExpired is mLastRecvCmdTime + mInactivityTimeout
\* < now, with mLastRecvCmdTime 0 at first; connectedTimeSet: the last
\* handler has set mConnectedTime to now.
\* mRequestFlag is written together with mOp and is mOp.kind = "cmd".
SmInit ==
    [mNetConnection |-> "null",     \* "null", "connecting", "good", "closed"
     mGenerationCount |-> 1,
     mSentHello |-> FALSE,
     mHelloOp |-> NoHello,
     mAuthOp |-> 0,                 \* the seq of the auth op, 0: none
     authReqShortRpcFmtFlag |-> FALSE,  \* mAuthOp->reqShortRpcFmtFlag
     mRpcFormat |-> "undef",        \* kRpcFormatUndef, "short": kRpcFormatShort
     mPendingOps |-> <<>>,
     mDispatchedOps |-> {},         \* <<seq, op id>>
     mPendingResponses |-> <<>>,
     mOp |-> NoOp,
     mMaxPendingOpsCount |-> kMaxPendingOpsDefault,
     mCmdSeq |-> 1,
     mReconnectFlag |-> FALSE,
     mHelloResume |-> -1,
     locationValid |-> TRUE,        \* mLocation.IsValid()
     authEnabled |-> FALSE,         \* mAuthContext.IsEnabled()
     running |-> TRUE,              \* globalNetManager().IsRunning()
     recvCmdExpired |-> TRUE,
     connectedTimeSet |-> FALSE,
     connectCalled |-> FALSE,       \* the last handler was a tick that called Connect
     now |-> 0,                     \* globalNetManager().Now(), where it is followed
     mLastConnectTime |-> 0,
     connectTimes |-> <<>>,         \* the clock at each Connect of a tick
     helloRunning |-> FALSE,        \* SubmitOp(mHelloOp) has not called back
     staleHello |-> FALSE,          \* a deleted hello op has not called back
     kfsOps |-> [id \in OpIds |-> NoKfsOp],
     completions |-> [id \in OpIds |-> <<>>],   \* SubmitOpResponse calls
     cmds |-> [c \in CmdIds |-> NoCmd],
     written |-> {},                \* responses the last handler wrote
     discarded |-> {},              \* responses the last handler dropped
     smFault |-> "none"]


\* No read has been made on the entry.
NoRead == [readPos |-> 0, readSize |-> 0, maxRead |-> 0, from |-> 0, count |-> 0,
           status |-> 0]

\* -------------------------------------------------------------------- Init
\* MetaDataStore::Impl::Impl
Init ==
    /\ mWorkersPtr = FALSE
    /\ mWorkersCount = 0
    /\ mDoneCount = 0
    /\ mStopFlag = FALSE
    /\ mDoneQueue = <<>>
    /\ mCheckpoints = <<>>
    /\ mLogSegments = <<>>
    /\ mCheckpointsLru = <<>>
    /\ mLogSegmentsLru = <<>>
    /\ mMinLogSeq = -1
    /\ mPruneLogsFlag = FALSE
    /\ mPendingDeleteCount = 0
    /\ mMaxCheckpointsToKeepCount = kMaxCheckpointsToKeepCount
    /\ mCurThreadIdx = 0
    /\ mPendingCount = 0
    /\ mNow = 0
    /\ mQueue = [w \in WorkerIds |-> <<>>]
    /\ mCond = [w \in WorkerIds |-> FALSE]
    /\ wPc = [w \in WorkerIds |-> "none"]
    /\ wCur = [w \in WorkerIds |-> 0]
    /\ theDeleteList = [w \in WorkerIds |-> {}]
    /\ theCloseList = [w \in WorkerIds |-> {}]
    /\ ops = <<>>
    /\ nextOp = 1
    /\ submitted = <<>>
    /\ registered = {}
    /\ fault = "none"
    /\ shutIdx = -1
    /\ rdFd = -1
    /\ rdOffset = 0
    /\ rdReads = 0
    /\ rdLast = NoRead
    /\ gMetaServerSM = SmInit

\* mMutex is held by a worker from the end of its queue drain to the end of
\* its pass (wPc = "pass"); every other holder takes and drops it in one action.
MutexFree == \A w \in WorkerIds : wPc[w] # "pass"

\* QCCondVar::Notify: wakes the thread if it is in Wait, else does nothing.
Notify(cond, w) == [cond EXCEPT ![w] = @ \/ wPc[w] = "waiting"]

\* The "poke worker 0" test of SetParameters, RegisterCheckpoint and Timeout.
WakeIdle == mPendingCount <= 0 /\ mWorkersPtr /\ ~mStopFlag

Max2(a, b) == IF a < b THEN b ELSE a

\* ----------------------------------------------------------- SetParameters
\* inKeep, inThreads: the values of maxCheckpointsToKeepCount and threadCount
\* as getValue returns them (the current value when the key is absent).
SetParameters(inKeep, inThreads) ==
    /\ fault = "none" /\ MutexFree
    /\ mMaxCheckpointsToKeepCount' = Max2(1, inKeep)
    /\ mWorkersCount' = IF ~mWorkersPtr THEN Max2(1, inThreads) ELSE mWorkersCount
    /\ mCond' = IF WakeIdle THEN Notify(mCond, 0) ELSE mCond
    /\ UNCHANGED <<mWorkersPtr, mStopFlag, doneVars, tableVars, pruneVars,
                   mCurThreadIdx, mPendingCount, mNow, mQueue, wPc, wCur,
                   theDeleteList, theCloseList, ops, nextOp, submitted,
                   registered, fault>>

\* ------------------------------------------------------ RegisterCheckpoint
\* The caller registers every file once (a duplicate key is a panic).
RegisterCheckpoint(inLogSeq) ==
    /\ fault = "none" /\ MutexFree
    /\ <<"chkpt", inLogSeq>> \notin registered
    /\ inLogSeq >= 0 /\ inLogSeq \notin DOMAIN mCheckpoints
    /\ mCheckpoints' = Insert(mCheckpoints, inLogSeq,
                              Entry(inLogSeq, inLogSeq, mCurThreadIdx))
    /\ mCurThreadIdx' = IF mWorkersCount <= mCurThreadIdx + 1 THEN 0
                        ELSE mCurThreadIdx + 1
    /\ mCond' = IF WakeIdle THEN Notify(mCond, 0) ELSE mCond
    /\ registered' = registered \cup {<<"chkpt", inLogSeq>>}
    /\ UNCHANGED <<lifeVars, doneVars, mLogSegments, mCheckpointsLru,
                   mLogSegmentsLru, pruneVars, mMaxCheckpointsToKeepCount,
                   mPendingCount, mNow, mQueue, wPc, wCur, theDeleteList,
                   theCloseList, ops, nextOp, submitted, fault>>

\* ------------------------------------------------------ RegisterLogSegment
RegisterLogSegment(inStartSeq, inEndSeq) ==
    /\ fault = "none" /\ MutexFree
    /\ <<"log", inStartSeq>> \notin registered
    /\ inStartSeq >= 0 /\ inStartSeq <= inEndSeq
    /\ inStartSeq \notin DOMAIN mLogSegments
    /\ mLogSegments' = Insert(mLogSegments, inStartSeq,
                              Entry(inStartSeq, inEndSeq, mCurThreadIdx))
    /\ LET theWakeFlag == inEndSeq < mMinLogSeq /\ ~mPruneLogsFlag /\ WakeIdle
       IN mCond' = IF theWakeFlag THEN Notify(mCond, 0) ELSE mCond
    /\ mPruneLogsFlag' = (mPruneLogsFlag \/ inEndSeq < mMinLogSeq)
    /\ mCurThreadIdx' = IF mWorkersCount <= mCurThreadIdx + 1 THEN 0
                        ELSE mCurThreadIdx + 1
    /\ registered' = registered \cup {<<"log", inStartSeq>>}
    /\ UNCHANGED <<lifeVars, doneVars, mCheckpoints, mCheckpointsLru,
                   mLogSegmentsLru, mMinLogSeq, mPendingDeleteCount,
                   mMaxCheckpointsToKeepCount, mPendingCount, mNow, mQueue,
                   wPc, wCur, theDeleteList, theCloseList, ops, nextOp, submitted,
                   fault>>

\* ------------------------------------------------------------------- Start
\* Start returns -EINVAL and changes nothing when the workers exist or
\* mWorkersCount <= 0.
Start ==
    /\ fault = "none"
    /\ ~mWorkersPtr /\ mWorkersCount > 0
    /\ mStopFlag' = FALSE
    /\ mWorkersPtr' = TRUE
    /\ mQueue' = [w \in WorkerIds |-> <<>>]
    /\ mCond' = [w \in WorkerIds |-> FALSE]
    /\ wPc' = [w \in WorkerIds |-> IF w < mWorkersCount THEN "start" ELSE "none"]
    /\ wCur' = [w \in WorkerIds |-> 0]
    /\ theDeleteList' = [w \in WorkerIds |-> {}]
    /\ theCloseList' = [w \in WorkerIds |-> {}]
    /\ UNCHANGED <<mWorkersCount, doneVars, tableVars, pruneVars,
                   mMaxCheckpointsToKeepCount, mCurThreadIdx, mPendingCount,
                   mNow, ops, nextOp, submitted, registered, fault>>

\* ------------------------------------------------------------------ Handle
\* The result of Handle's lookup: err = 0 and the entry's key, or the status
\* and message Handle returns with.  startLogSeq and readPos are the op's
\* fields as Handle leaves them.
Found(k, inReadPos) ==
    [err |-> 0, msg |-> "", key |-> k, startLogSeq |-> k, readPos |-> inReadPos]
NotFound(inErr, inMsg, inSeq, inReadPos) ==
    [err |-> inErr, msg |-> inMsg, key |-> -1, startLogSeq |-> inSeq, readPos |-> inReadPos]

\* FindCheckpoint that takes the newest checkpoint when the requested one
\* is not in the table.
FindCheckpointOrNewest(tbl, inSeq, inReadPos) ==
    IF DOMAIN tbl = {}
    THEN NotFound(-ENOENT, "no checkpoint exists", inSeq, inReadPos)
    ELSE IF inSeq < 0 \/ inSeq \notin DOMAIN tbl
    THEN Found(SetMax(DOMAIN tbl), 0)
    ELSE Found(inSeq, inReadPos)

\* Handle, checkpointFlag set
FindCheckpoint(tbl, inSeq, inReadPos) ==
    IF DOMAIN tbl = {}
    THEN NotFound(-ENOENT, "no checkpoint exists", inSeq, inReadPos)
    ELSE IF inSeq < 0
    THEN Found(SetMax(DOMAIN tbl), 0)
    ELSE IF inSeq \notin DOMAIN tbl
    THEN NotFound(-ENOENT, "no such checkpoint", inSeq, inReadPos)
    ELSE Found(inSeq, inReadPos)

\* LowerBoundLookup without the test of the predecessor's mLogEndSeq.
LowerBoundLookupNoEndTest(tbl, inSeq, inReadPos) ==
    LET ge == {k \in DOMAIN tbl : inSeq <= k}
        lt == {k \in DOMAIN tbl : k < inSeq}
        theIt == IF ge = {} \/ inSeq < tbl[SetMin(ge)].mLogSeq
                 THEN IF lt = {} THEN -1 ELSE SetMax(lt)
                 ELSE SetMin(ge)
    IN  IF theIt < 0
        THEN NotFound(-ENOENT, "no such log segment", inSeq, inReadPos)
        ELSE Found(tbl[theIt].mLogSeq, inReadPos)

\* Handle, checkpointFlag clear, readPos <= 0: lower_bound, then the
\* predecessor when the bound is past the requested sequence.
LowerBoundLookup(tbl, inSeq, inReadPos) ==
    LET ge == {k \in DOMAIN tbl : inSeq <= k}
        lt == {k \in DOMAIN tbl : k < inSeq}
        theIt == IF ge = {} \/ inSeq < tbl[SetMin(ge)].mLogSeq
                 THEN IF lt = {} THEN -1 ELSE SetMax(lt)
                 ELSE SetMin(ge)
    IN  IF theIt < 0
        THEN NotFound(-ENOENT, "no such log segment", inSeq, inReadPos)
        ELSE IF tbl[theIt].mLogEndSeq < inSeq
        THEN NotFound(-EFAULT, "missing log segment", inSeq, inReadPos)
        ELSE Found(tbl[theIt].mLogSeq, inReadPos)

\* Handle, checkpointFlag clear
FindLogSegment(tbl, inSeq, inReadPos) ==
    IF inSeq < 0
    THEN NotFound(-EINVAL, "invalid log sequence", inSeq, inReadPos)
    ELSE IF 0 < inReadPos
    THEN IF inSeq \notin DOMAIN tbl
         THEN NotFound(-EINVAL, "no such log sequence", inSeq, inReadPos)
         ELSE Found(inSeq, inReadPos)
    ELSE LowerBoundLookup(tbl, inSeq, inReadPos)

\* Handle up to the choice of the entry
HandleLookup(inCheckpointFlag, inSeq, inReadPos) ==
    IF ~mWorkersPtr
    THEN NotFound(-ENOENT, "shutdown", inSeq, inReadPos)
    ELSE IF inCheckpointFlag
    THEN FindCheckpoint(mCheckpoints, inSeq, inReadPos)
    ELSE FindLogSegment(mLogSegments, inSeq, inReadPos)

\* mUseCount++ and UpdateLru(inLru, mNow)
Acquire(tbl, k) ==
    [tbl EXCEPT ![k].mUseCount = @ + 1, ![k].mAccessTime = mNow]

\* Handle with mUseCount++ made on the segment found by lower_bound before
\* its end is compared with startLogSeq: the -EFAULT return keeps the count.
HandleEffectAcquiresBeforeEndTest(inCheckpointFlag, inSeq, inReadPos) ==
    LET r == HandleLookup(inCheckpointFlag, inSeq, inReadPos)
        op == [checkpointFlag |-> inCheckpointFlag, startLogSeq |-> r.startLogSeq,
               readPos |-> r.readPos, status |-> r.err]
        same == [op |-> op, statusMsg |-> r.msg, routed |-> FALSE, worker |-> -1,
                 cp |-> mCheckpoints, cpLru |-> mCheckpointsLru,
                 ls |-> mLogSegments, lsLru |-> mLogSegmentsLru,
                 queue |-> mQueue, pend |-> mPendingCount, cond |-> mCond,
                 fault |-> fault]
    IN  IF r.err = -EFAULT
        THEN [same EXCEPT !.ls = Acquire(mLogSegments,
                              SetMax({k \in DOMAIN mLogSegments : k <= inSeq}))]
        ELSE IF r.err # 0 THEN same
        ELSE LET tbl == IF inCheckpointFlag THEN mCheckpoints ELSE mLogSegments
                 tbl1 == Acquire(tbl, r.key)
                 theThreadIdx == tbl[r.key].mThreadIdx
                 s1 == IF inCheckpointFlag
                       THEN [same EXCEPT !.cp = tbl1,
                               !.cpLru = UpdateLruList(tbl1[r.key], r.key, @)]
                       ELSE [same EXCEPT !.ls = tbl1,
                               !.lsLru = UpdateLruList(tbl1[r.key], r.key, @)]
             IN  IF 0 <= theThreadIdx /\ theThreadIdx < mWorkersCount
                 THEN [s1 EXCEPT !.routed = TRUE, !.worker = theThreadIdx,
                                 !.queue[theThreadIdx] = Append(@, nextOp),
                                 !.pend = @ + 1,
                                 !.cond = Notify(mCond, theThreadIdx)]
                 ELSE [s1 EXCEPT !.fault = "QCASSERT(mThreadIdx < mWorkersCount)"]

\* What one call of Handle does: the op as it leaves Handle (status,
\* statusMsg, startLogSeq, readPos), whether it was pushed on a worker's
\* queue, and the store's fields Handle writes.
HandleEffect(inCheckpointFlag, inSeq, inReadPos) ==
    LET r == HandleLookup(inCheckpointFlag, inSeq, inReadPos)
        op == [checkpointFlag |-> inCheckpointFlag, startLogSeq |-> r.startLogSeq,
               readPos |-> r.readPos, status |-> r.err]
        same == [op |-> op, statusMsg |-> r.msg, routed |-> FALSE, worker |-> -1,
                 cp |-> mCheckpoints, cpLru |-> mCheckpointsLru,
                 ls |-> mLogSegments, lsLru |-> mLogSegmentsLru,
                 queue |-> mQueue, pend |-> mPendingCount, cond |-> mCond,
                 fault |-> fault]
    IN  IF r.err # 0 THEN same
        ELSE LET tbl == IF inCheckpointFlag THEN mCheckpoints ELSE mLogSegments
                 tbl1 == Acquire(tbl, r.key)
                 theThreadIdx == tbl[r.key].mThreadIdx
                 s1 == IF inCheckpointFlag
                       THEN [same EXCEPT !.cp = tbl1,
                               !.cpLru = UpdateLruList(tbl1[r.key], r.key, @)]
                       ELSE [same EXCEPT !.ls = tbl1,
                               !.lsLru = UpdateLruList(tbl1[r.key], r.key, @)]
             IN  IF 0 <= theThreadIdx /\ theThreadIdx < mWorkersCount
                 THEN [s1 EXCEPT !.routed = TRUE, !.worker = theThreadIdx,
                                 !.queue[theThreadIdx] = Append(@, nextOp),
                                 !.pend = @ + 1,
                                 !.cond = Notify(mCond, theThreadIdx)]
                 ELSE \* QCASSERT fails; mWorkersPtr[mThreadIdx] is past the array
                      [s1 EXCEPT !.fault = "QCASSERT(mThreadIdx < mWorkersCount)"]

\* The fields of an op that Run and Read look at or write.
QueuedOp(op) ==
    [checkpointFlag |-> op.checkpointFlag, startLogSeq |-> op.startLogSeq,
     status |-> op.status]

\* A call that returns an error leaves the store as it was.  The store keeps
\* the ops it accepted until Timeout hands them back.
Handle(inCheckpointFlag, inSeq, inReadPos) ==
    /\ fault = "none" /\ MutexFree
    /\ LET h == HandleEffect(inCheckpointFlag, inSeq, inReadPos)
       IN  /\ mCheckpoints' = h.cp
           /\ mCheckpointsLru' = h.cpLru
           /\ mLogSegments' = h.ls
           /\ mLogSegmentsLru' = h.lsLru
           /\ mQueue' = h.queue
           /\ mPendingCount' = h.pend
           /\ mCond' = h.cond
           /\ fault' = h.fault
           /\ ops' = IF h.routed THEN Insert(ops, nextOp, QueuedOp(h.op)) ELSE ops
           /\ nextOp' = IF h.routed THEN nextOp + 1 ELSE nextOp
    /\ UNCHANGED <<lifeVars, doneVars, pruneVars, mMaxCheckpointsToKeepCount,
                   mCurThreadIdx, mNow, wPc, wCur, theDeleteList, theCloseList,
                   submitted, registered>>

\* ------------------------------------------------------------- worker: Run
\* The part of the store one mutex-held stretch of Run works on.
RunState(w) ==
    [q |-> mQueue[w], ops |-> ops, cp |-> mCheckpoints, ls |-> mLogSegments,
     cpLru |-> mCheckpointsLru, lsLru |-> mLogSegmentsLru,
     pend |-> mPendingCount, done |-> mDoneQueue, doneCount |-> mDoneCount,
     cur |-> 0, fault |-> "none"]

\* Run: QCASSERT(0 < mPendingCount); mPendingCount--; mDoneQueue.PushBack;
\* SyncAddAndFetch(mDoneCount, 1)
Finish(s, id) ==
    [s EXCEPT !.pend = @ - 1, !.done = Append(@, id), !.doneCount = @ + 1,
              !.fault = IF s.pend <= 0 /\ s.fault = "none"
                        THEN "QCASSERT(0 < mPendingCount)" ELSE @]

SetStatus(s, id, inStatus, inMsg) ==
    [s EXCEPT !.ops[id].status = inStatus]

\* Read, from the lookup to the release of the mutex: UpdateLru(inLru, mNow)
ReadBegin(s, cpFlag, k) ==
    IF cpFlag
    THEN [s EXCEPT !.cp[k].mAccessTime = mNow,
                   !.cpLru = UpdateLruList(s.cp[k], k, @)]
    ELSE [s EXCEPT !.ls[k].mAccessTime = mNow,
                   !.lsLru = UpdateLruList(s.ls[k], k, @)]

\* Read, after the mutex is taken again: mUseCount--, UpdateLru(inLru, mNow)
Release(e) == [e EXCEPT !.mUseCount = @ - 1, !.mAccessTime = mNow]

ReadEnd(s, cpFlag, k) ==
    IF cpFlag
    THEN [s EXCEPT !.cp[k] = Release(@),
                   !.cpLru = UpdateLruList(Release(s.cp[k]), k, @)]
    ELSE [s EXCEPT !.ls[k] = Release(@),
                   !.lsLru = UpdateLruList(Release(s.ls[k]), k, @)]

\* Run's inner loop: pops ops until the queue is empty (cur = 0) or an op
\* is in Read with the mutex released (cur = the op).
RECURSIVE Drain(_)
Drain(s) ==
    IF s.q = <<>> \/ s.fault # "none"
    THEN s
    ELSE LET id == Head(s.q)
             op == s.ops[id]
             s1 == [s EXCEPT !.q = Tail(@)]
             tbl == IF op.checkpointFlag THEN s.cp ELSE s.ls
         IN  IF mStopFlag
             THEN Drain(Finish(SetStatus(s1, id, -ECANCELED, "canceled by shutdown"), id))
             ELSE IF op.startLogSeq \notin DOMAIN tbl
             THEN Drain(Finish(SetStatus(s1, id, -EFAULT,
                                         "internal error -- no such entry"), id))
             ELSE IF tbl[op.startLogSeq].mUseCount <= 0
             THEN [s1 EXCEPT !.cur = id, !.fault = "QCRTASSERT(0 < mUseCount)"]
             ELSE [ReadBegin(s1, op.checkpointFlag, op.startLogSeq) EXCEPT !.cur = id]

\* The variables after a stretch of Run that ends in Read (wPc = "io"), at
\* the pass (wPc = "pass"), or in a failed assertion.
AfterDrain(w, s) ==
    /\ mQueue' = [mQueue EXCEPT ![w] = s.q]
    /\ ops' = s.ops
    /\ mCheckpoints' = s.cp
    /\ mLogSegments' = s.ls
    /\ mCheckpointsLru' = s.cpLru
    /\ mLogSegmentsLru' = s.lsLru
    /\ mPendingCount' = s.pend
    /\ mDoneQueue' = s.done
    /\ mDoneCount' = s.doneCount
    /\ fault' = s.fault
    /\ wCur' = [wCur EXCEPT ![w] = s.cur]
    /\ wPc' = [wPc EXCEPT ![w] = IF s.cur # 0 THEN "io" ELSE "pass"]
    /\ mCond' = [mCond EXCEPT ![w] = FALSE]

\* Run: the mutex is taken; while (! mStopFlag) mCond.Wait(mMutex)
LoopTop == IF mStopFlag THEN "exited" ELSE "waiting"

WorkerEnter(w) ==
    /\ fault = "none" /\ MutexFree
    /\ wPc[w] = "start"
    /\ wPc' = [wPc EXCEPT ![w] = LoopTop]
    /\ UNCHANGED <<lifeVars, doneVars, tableVars, pruneVars,
                   mMaxCheckpointsToKeepCount, mCurThreadIdx, mPendingCount,
                   mNow, mQueue, mCond, wCur, theDeleteList, theCloseList,
                   ops, nextOp, submitted, registered, fault>>

\* Wait returns after a Notify; the queue is drained.
WorkerRun(w) ==
    /\ fault = "none" /\ MutexFree
    /\ wPc[w] = "waiting" /\ mCond[w]
    /\ AfterDrain(w, Drain(RunState(w)))
    /\ UNCHANGED <<lifeVars, pruneVars, mMaxCheckpointsToKeepCount,
                   mCurThreadIdx, mNow, theDeleteList, theCloseList,
                   nextOp, submitted, registered>>

\* Read with the mutex released: open when mFd < 0, then read.  inResult is
\* what the system calls do.  An entry erased since the lookup leaves
\* theEntry dangling: the program either crashes or goes on with writes
\* that land in freed memory.
WorkerIo(w, inResult, inCrash) ==
    /\ fault = "none"
    /\ wPc[w] = "io"
    /\ LET id == wCur[w]
           op == ops[id]
           k == op.startLogSeq
           tbl == IF op.checkpointFlag THEN mCheckpoints ELSE mLogSegments
           opened == k \in DOMAIN tbl /\ 0 <= tbl[k].mFd
           st == IF inResult = "ok" THEN 0 ELSE -EIO
       IN
       /\ inResult = "openFail" => ~opened
       /\ IF k \notin DOMAIN tbl /\ inCrash
          THEN /\ fault' = "use after free"
               /\ UNCHANGED <<ops, wPc, tableVars>>
          ELSE /\ ops' = [ops EXCEPT ![id].status = st]
               /\ wPc' = [wPc EXCEPT ![w] = "iodone"]
               /\ UNCHANGED fault
               /\ IF k \in DOMAIN tbl /\ ~opened /\ inResult # "openFail"
                  THEN IF op.checkpointFlag
                       THEN /\ mCheckpoints' = [mCheckpoints EXCEPT
                                   ![k].mFd = FdOf(TRUE, k)]
                            /\ UNCHANGED <<mLogSegments, mCheckpointsLru,
                                           mLogSegmentsLru>>
                       ELSE /\ mLogSegments' = [mLogSegments EXCEPT
                                   ![k].mFd = FdOf(FALSE, k)]
                            /\ UNCHANGED <<mCheckpoints, mCheckpointsLru,
                                           mLogSegmentsLru>>
                  ELSE UNCHANGED tableVars
    /\ UNCHANGED <<lifeVars, doneVars, pruneVars, mMaxCheckpointsToKeepCount,
                   mCurThreadIdx, mPendingCount, mNow, mQueue, mCond, wCur,
                   theDeleteList, theCloseList, nextOp, submitted, registered>>

\* Read takes the mutex again, releases the entry; Run completes the op and
\* goes on with the queue.
WorkerIoDone(w, inCrash) ==
    /\ fault = "none" /\ MutexFree
    /\ wPc[w] = "iodone"
    /\ LET id == wCur[w]
           op == ops[id]
           k == op.startLogSeq
           tbl == IF op.checkpointFlag THEN mCheckpoints ELSE mLogSegments
           s0 == RunState(w)
       IN  IF k \notin DOMAIN tbl
           THEN IF inCrash
                THEN /\ fault' = "use after free"
                     /\ UNCHANGED <<mQueue, ops, tableVars, mPendingCount,
                                    doneVars, wCur, wPc, mCond>>
                ELSE AfterDrain(w, Drain(Finish(s0, id)))
           ELSE AfterDrain(w, Drain(Finish(ReadEnd(s0, op.checkpointFlag, k), id)))
    /\ UNCHANGED <<lifeVars, pruneVars, mMaxCheckpointsToKeepCount,
                   mCurThreadIdx, mNow, theDeleteList, theCloseList,
                   nextOp, submitted, registered>>

\* ------------------------------------------------------- worker: the pass
\* Expire(inLru, inTable, inExpireTime, inDeleteList, inCloseList)
\* t: [tbl, lru, del, close]
RECURSIVE ExpireList(_, _, _)
ExpireList(t, cpFlag, inExpireTime) ==
    IF t.lru = <<>> THEN t
    ELSE LET k == Head(t.lru)
             e == t.tbl[k]
         IN  IF ~EntryExpire(e, inExpireTime) THEN t
             ELSE ExpireList(
                    [tbl |-> IF e.mPendingDeleteFlag THEN Erase(t.tbl, k)
                             ELSE [t.tbl EXCEPT ![k].mFd = -1],
                     lru |-> Tail(t.lru),
                     del |-> IF e.mPendingDeleteFlag
                             THEN t.del \cup {FileOf(cpFlag, k)} ELSE t.del,
                     close |-> IF 0 <= e.mFd THEN t.close \cup {e.mFd} ELSE t.close],
                    cpFlag, inExpireTime)

\* RaiseMinLogSeq without the comparison.
AssignMinLogSeq(inMinLogSeq, inLogSeq) == inLogSeq

\* Run: if (mMinLogSeq < theIt->second.mLogSeq) mMinLogSeq = ...
RaiseMinLogSeq(inMinLogSeq, inLogSeq) ==
    IF inMinLogSeq < inLogSeq THEN inLogSeq ELSE inMinLogSeq

\* Run: the checkpoint loop, from begin(), thePruneCount entries.
\* t: [tbl, lru, del, close, min, pendDel]
RECURSIVE PruneCheckpoints(_, _, _)
PruneCheckpoints(t, keys, thePruneCount) ==
    IF thePruneCount <= 0 \/ keys = <<>> THEN t
    ELSE LET k == Head(keys)
             e == t.tbl[k]
             theMin == RaiseMinLogSeq(t.min, e.mLogSeq)
         IN  IF IsInUse(e)
             THEN PruneCheckpoints(
                    [t EXCEPT !.min = theMin,
                              !.pendDel = IF e.mPendingDeleteFlag THEN @ ELSE @ + 1,
                              !.tbl[k].mPendingDeleteFlag = TRUE],
                    Tail(keys), thePruneCount - 1)
             ELSE PruneCheckpoints(
                    [t EXCEPT !.min = theMin,
                              !.close = IF 0 <= e.mFd THEN @ \cup {e.mFd} ELSE @,
                              !.del = @ \cup {FileOf(TRUE, k)},
                              !.tbl = Erase(@, k),
                              !.lru = ListRemove(@, k)],
                    Tail(keys), thePruneCount - 1)

\* Run: the log segment loop, from theIt while mLogEndSeq < mMinLogSeq.
\* t: [tbl, lru, del, close]
RECURSIVE PruneLogSegments(_, _, _)
PruneLogSegments(t, keys, inMinLogSeq) ==
    IF keys = <<>> THEN t
    ELSE LET k == Head(keys)
             e == t.tbl[k]
         IN  IF ~(e.mLogEndSeq < inMinLogSeq) THEN t
             ELSE IF IsInUse(e)
             THEN PruneLogSegments([t EXCEPT !.tbl[k].mPendingDeleteFlag = TRUE],
                                   Tail(keys), inMinLogSeq)
             ELSE PruneLogSegments(
                    [t EXCEPT !.close = IF 0 <= e.mFd THEN @ \cup {e.mFd} ELSE @,
                              !.del = @ \cup {FileOf(FALSE, k)},
                              !.tbl = Erase(@, k),
                              !.lru = ListRemove(@, k)],
                    Tail(keys), inMinLogSeq)

\* Run: where the log segment loop starts: find(thePrevMinLogSeq), or begin().
PruneLogStart(tbl, thePrevMinLogSeq) ==
    IF thePrevMinLogSeq \in DOMAIN tbl
    THEN SortedSeq({k \in DOMAIN tbl : thePrevMinLogSeq <= k})
    ELSE SortedSeq(DOMAIN tbl)

\* Run after the queue is drained: Expire, the checkpoint loop, the log
\* segment loop.  The result holds the tables, the lists and the counters.
Pass ==
    LET theExpireTime == mNow - kMaxInactiveTime
        x1 == ExpireList([tbl |-> mCheckpoints, lru |-> mCheckpointsLru,
                          del |-> {}, close |-> {}], TRUE, theExpireTime)
        theDelta == Cardinality(x1.del)
        x2 == ExpireList([tbl |-> mLogSegments, lru |-> mLogSegmentsLru,
                          del |-> x1.del, close |-> x1.close], FALSE, theExpireTime)
        thePendDel == mPendingDeleteCount - theDelta
        thePruneCount == Cardinality(DOMAIN x1.tbl) - mMaxCheckpointsToKeepCount
                         - thePendDel
        c == PruneCheckpoints([tbl |-> x1.tbl, lru |-> x1.lru, del |-> x2.del,
                               close |-> x2.close, min |-> mMinLogSeq,
                               pendDel |-> thePendDel],
                              SortedSeq(DOMAIN x1.tbl), thePruneCount)
        thePruneLogs == mPruneLogsFlag \/ mMinLogSeq < c.min
        l == IF thePruneLogs
             THEN PruneLogSegments([tbl |-> x2.tbl, lru |-> x2.lru, del |-> c.del,
                                    close |-> c.close],
                                   PruneLogStart(x2.tbl, mMinLogSeq), c.min)
             ELSE [tbl |-> x2.tbl, lru |-> x2.lru, del |-> c.del, close |-> c.close]
    IN  [cp |-> c.tbl, cpLru |-> c.lru, ls |-> l.tbl, lsLru |-> l.lru,
         min |-> c.min, pendDel |-> c.pendDel,
         pruneLogs |-> IF thePruneLogs THEN FALSE ELSE mPruneLogsFlag,
         del |-> l.del, close |-> l.close,
         fault |-> IF theDelta <= mPendingDeleteCount THEN "none"
                   ELSE "QCASSERT(theDelta <= mPendingDeleteCount)"]

WorkerPass(w) ==
    /\ fault = "none"
    /\ wPc[w] = "pass"
    /\ LET r == Pass
       IN  /\ mCheckpoints' = r.cp
           /\ mCheckpointsLru' = r.cpLru
           /\ mLogSegments' = r.ls
           /\ mLogSegmentsLru' = r.lsLru
           /\ mMinLogSeq' = r.min
           /\ mPendingDeleteCount' = r.pendDel
           /\ mPruneLogsFlag' = r.pruneLogs
           /\ theDeleteList' = [theDeleteList EXCEPT ![w] = r.del]
           /\ theCloseList' = [theCloseList EXCEPT ![w] = r.close]
           /\ fault' = r.fault
           /\ wPc' = [wPc EXCEPT ![w] =
                        IF r.del # {} \/ r.close # {} THEN "cleanup" ELSE LoopTop]
    /\ UNCHANGED <<lifeVars, doneVars, mMaxCheckpointsToKeepCount,
                   mCurThreadIdx, mPendingCount, mNow, mQueue, mCond, wCur,
                   ops, nextOp, submitted, registered>>

\* Run with the mutex released: close and unlink what the pass collected,
\* then the mutex is taken again and the loop goes to its top.
WorkerCleanup(w) ==
    /\ fault = "none" /\ MutexFree
    /\ wPc[w] = "cleanup"
    /\ theDeleteList' = [theDeleteList EXCEPT ![w] = {}]
    /\ theCloseList' = [theCloseList EXCEPT ![w] = {}]
    /\ wPc' = [wPc EXCEPT ![w] = LoopTop]
    /\ UNCHANGED <<lifeVars, doneVars, tableVars, pruneVars,
                   mMaxCheckpointsToKeepCount, mCurThreadIdx, mPendingCount,
                   mNow, mQueue, mCond, wCur, ops, nextOp, submitted,
                   registered, fault>>

\* ----------------------------------------------------------------- Timeout
\* HasExpired
HasExpired(tbl, lru, inExpireTime) ==
    lru # <<>> /\ tbl[Head(lru)].mAccessTime < inExpireTime

\* Timeout; theNow = mNetManager.Now() is mNow + d.  Timeout returns at once
\* when mDoneCount <= 0 and the clock has not moved.
Timeout(d) ==
    /\ fault = "none" /\ MutexFree
    /\ mNow + d <= MaxNow
    /\ ~(mDoneCount <= 0 /\ d = 0)
    /\ mNow' = mNow + d
    /\ mDoneQueue' = <<>>
    /\ mDoneCount' = 0
    /\ LET theExpireTime == mNow + d - kMaxInactiveTime
       IN  mCond' = IF WakeIdle /\
                       (HasExpired(mCheckpoints, mCheckpointsLru, theExpireTime) \/
                        HasExpired(mLogSegments, mLogSegmentsLru, theExpireTime))
                    THEN Notify(mCond, 0) ELSE mCond
    /\ submitted' = submitted \o mDoneQueue
    /\ ops' = [id \in DOMAIN ops \ {mDoneQueue[i] : i \in DOMAIN mDoneQueue} |-> ops[id]]
    /\ UNCHANGED <<lifeVars, tableVars, pruneVars, mMaxCheckpointsToKeepCount,
                   mCurThreadIdx, mPendingCount, mQueue, wPc, wCur,
                   theDeleteList, theCloseList, nextOp, registered, fault>>

\* -------------------------------------------------------------------- Next
\* threadCount values given to SetParameters; the value is not looked at once
\* the workers exist.
ThreadCounts == IF mWorkersPtr THEN {0} ELSE 0..MaxWorkers

\* The variables the store's operations without Shutdown leave alone.
sideVars == <<shutIdx, rdVars, gMetaServerSM>>

\* The budget of a behaviour: MaxFiles registrations, MaxOps accepted reads.
FilesLeft == Cardinality(registered) < MaxFiles
OpsLeft == nextOp <= MaxOps

Next ==
    \/ \E k \in 0..MaxKeep, t \in ThreadCounts :
          SetParameters(k, t) /\ UNCHANGED sideVars
    \/ \E s \in Seqs : FilesLeft /\ RegisterCheckpoint(s) /\ UNCHANGED sideVars
    \/ \E s \in Seqs, e \in Seqs :
          FilesLeft /\ RegisterLogSegment(s, e) /\ UNCHANGED sideVars
    \/ Start /\ UNCHANGED sideVars
    \/ \E cf \in BOOLEAN, s \in -1..MaxSeq, p \in ReadPositions :
          OpsLeft /\ Handle(cf, s, p) /\ UNCHANGED sideVars
    \/ \E w \in WorkerIds : WorkerEnter(w) /\ UNCHANGED sideVars
    \/ \E w \in WorkerIds : WorkerRun(w) /\ UNCHANGED sideVars
    \/ \E w \in WorkerIds, r \in {"ok", "openFail", "readFail"}, c \in BOOLEAN :
          WorkerIo(w, r, c) /\ UNCHANGED sideVars
    \/ \E w \in WorkerIds, c \in BOOLEAN : WorkerIoDone(w, c) /\ UNCHANGED sideVars
    \/ \E w \in WorkerIds : WorkerPass(w) /\ UNCHANGED sideVars
    \/ \E w \in WorkerIds : WorkerCleanup(w) /\ UNCHANGED sideVars
    \/ \E d \in ClockSteps : Timeout(d) /\ UNCHANGED sideVars

Spec == Init /\ [][Next]_vars

\* ================================================================== claims
\* A worker ends its pass (expiration, checkpoint retention, log pruning).
PassEnds == \E w \in WorkerIds : wPc[w] = "pass" /\ wPc'[w] # "pass"

\* The keys of the entries that are not marked for deletion.
NotPendingDelete(tbl) == {k \in DOMAIN tbl : ~tbl[k].mPendingDeleteFlag}

\* Handle can be called: the caller gets the mutex.
HandleCallable == fault = "none" /\ MutexFree /\ nextOp <= MaxOps

\* The call returned inErr and touched nothing of the store.
Rejected(h, inErr) ==
    /\ h.op.status = inErr /\ ~h.routed /\ h.fault = fault
    /\ h.cp = mCheckpoints /\ h.cpLru = mCheckpointsLru
    /\ h.ls = mLogSegments /\ h.lsLru = mLogSegmentsLru
    /\ h.queue = mQueue /\ h.pend = mPendingCount /\ h.cond = mCond

\* The call took the entry k of the table and pushed the op on its worker.
Routed(h, tbl, tbl2, k) ==
    /\ h.op.status = 0 /\ h.op.startLogSeq = k
    /\ tbl2[k].mUseCount = tbl[k].mUseCount + 1
    /\ h.routed /\ h.worker = tbl[k].mThreadIdx
    /\ h.queue = [mQueue EXCEPT ![tbl[k].mThreadIdx] = Append(@, nextOp)]

\* No two segments of the table share a sequence number.
NonOverlapping(tbl) ==
    \A a \in DOMAIN tbl, b \in DOMAIN tbl : a < b => tbl[a].mLogEndSeq < b

\* S is in a gap: past the end of the segment with the largest start <= S,
\* and before the start of a later segment.
InGap(tbl, S) ==
    LET le == {k \in DOMAIN tbl : k <= S}
    IN  /\ le # {} /\ tbl[SetMax(le)].mLogEndSeq < S
        /\ \E k \in DOMAIN tbl : S < k

\* An entry in use stays in its table, out of the unlink list and with its
\* descriptor out of the close list.
InUseKept(tbl, tbl2, cpFlag) ==
    \A k \in DOMAIN tbl : tbl[k].mUseCount > 0 =>
        /\ k \in DOMAIN tbl2
        /\ \A w \in WorkerIds :
              /\ FileOf(cpFlag, k) \notin theDeleteList'[w]
              /\ (0 <= tbl[k].mFd => tbl[k].mFd \notin theCloseList'[w])

\* C1: no step erases a checkpoint or log segment whose useCount > 0 from
\* its table, queues its file for unlink or queues its descriptor for close.
C1_InUseNeverErased ==
    [][InUseKept(mCheckpoints, mCheckpoints', TRUE) /\
       InUseKept(mLogSegments, mLogSegments', FALSE)]_vars

\* No step raises the use count of an entry that is marked for deletion.
NoNewUse(tbl, tbl2) ==
    \A k \in DOMAIN tbl \cap DOMAIN tbl2 :
        tbl[k].mPendingDeleteFlag => tbl2[k].mUseCount <= tbl[k].mUseCount

\* C2: once an entry is marked pendingDelete, no later Handle call
\* increments its useCount (binds a new read to it).
C2_NoBindToPendingDelete ==
    [][NoNewUse(mCheckpoints, mCheckpoints') /\
       NoNewUse(mLogSegments, mLogSegments')]_vars

\* Nothing is in flight and nothing waits for expiration: the next pass
\* sees what this one saw.
Quiescent ==
    /\ mPendingCount = 0 /\ mCheckpointsLru = <<>>
    /\ \A k \in DOMAIN mCheckpoints : mCheckpoints[k].mUseCount = 0

\* C3: pruning brings the number of checkpoints not marked pendingDelete
\* down to maxCheckpointsToKeepCount within bounded passes: a pass that finds
\* the store quiescent and changes nothing (so that every later pass changes
\* nothing either) leaves at most maxCheckpointsToKeepCount of them.
C3_RetentionReachesKeepCount ==
    [][(PassEnds /\ Quiescent /\ UNCHANGED <<tableVars, pruneVars>>)
        => Cardinality(NotPendingDelete(mCheckpoints)) <= mMaxCheckpointsToKeepCount]_vars

\* The pass erased a checkpoint that was not marked, or marked one.
RetentionActed ==
    \E k \in NotPendingDelete(mCheckpoints) :
        k \notin DOMAIN mCheckpoints' \/ mCheckpoints'[k].mPendingDeleteFlag

\* C4: after a retention pass that prunes or marks at least one checkpoint,
\* minLogSeq is the smallest key among the checkpoints still in the table
\* and not marked pendingDelete.
C4_MinLogSeqIsOldestKept ==
    [][(PassEnds /\ RetentionActed /\ NotPendingDelete(mCheckpoints') # {})
        => mMinLogSeq' = SetMin(NotPendingDelete(mCheckpoints'))]_vars

\* C5: minLogSeq never decreases.
C5_MinLogSeqMonotonic == [][mMinLogSeq' >= mMinLogSeq]_vars

\* C5, its case: minLogSeq was raised, and a later pass has taken a
\* checkpoint with a smaller logSeq as its victim.
C5_Witness ==
    /\ mMinLogSeq > 0
    /\ \E k \in DOMAIN mCheckpoints :
          k < mMinLogSeq /\ mCheckpoints[k].mPendingDeleteFlag

\* C6: a log segment with logEndSeq < minLogSeq and useCount = 0 that is in
\* the table when a pass begins is erased by the end of that pass.
C6_ObsoleteSegmentErased ==
    [][PassEnds =>
        \A k \in DOMAIN mLogSegments :
            (mLogSegments[k].mLogEndSeq < mMinLogSeq /\
             mLogSegments[k].mUseCount = 0) => k \notin DOMAIN mLogSegments']_vars

\* Handle with checkpointFlag clear, readPos = 0 and S inside a segment.
ReadInsideSegment(k, S) ==
    Routed(HandleEffect(FALSE, S, 0), mLogSegments,
           HandleEffect(FALSE, S, 0).ls, k)

\* C7: on a running store with non-overlapping segments, Handle with
\* checkpointFlag = false, readPos = 0 and startLogSeq = S inside a segment
\* [start, end] sets no error, rewrites startLogSeq to start, increments the
\* segment's useCount and queues the op on the segment's worker.
C7_ReadInsideSegmentRouted ==
    (HandleCallable /\ mWorkersPtr /\ NonOverlapping(mLogSegments)) =>
        \A k \in DOMAIN mLogSegments :
            \A S \in k..mLogSegments[k].mLogEndSeq : ReadInsideSegment(k, S)

\* C7 where every segment's thread index is below the worker count.
C7_RoutedWhenThreadIdxValid ==
    (HandleCallable /\ mWorkersPtr /\ NonOverlapping(mLogSegments)) =>
        \A k \in DOMAIN mLogSegments :
            mLogSegments[k].mThreadIdx < mWorkersCount =>
                \A S \in k..mLogSegments[k].mLogEndSeq : ReadInsideSegment(k, S)

\* C8 as stated: Handle with checkpointFlag = false, readPos = 0 and S in a
\* gap returns -EFAULT and does not route the op, whatever the store's state.
C8_GapIsEFAULT ==
    \A S \in Seqs :
        InGap(mLogSegments, S) => Rejected(HandleEffect(FALSE, S, 0), -EFAULT)

\* C8, amended: on a running store, Handle with checkpointFlag = false,
\* readPos = 0 and S in a gap returns -EFAULT and does not route the op.
C8_GapIsEFAULTWhenRunning ==
    mWorkersPtr =>
        \A S \in Seqs :
            InGap(mLogSegments, S) => Rejected(HandleEffect(FALSE, S, 0), -EFAULT)

\* C8, its case: a running store that takes calls, with a gap in its table.
C8_Witness ==
    /\ HandleCallable /\ mWorkersPtr
    /\ \E S \in Seqs : InGap(mLogSegments, S)

\* The checkpoint part of C9.
NoCheckpointIsENOENT ==
    \A S \in -1..MaxSeq, p \in ReadPositions :
        (DOMAIN mCheckpoints = {} \/ (S >= 0 /\ S \notin DOMAIN mCheckpoints))
            => Rejected(HandleEffect(TRUE, S, p), -ENOENT)

\* The requested sequence is before the oldest segment, or no segment exists.
BeforeOldest(S) ==
    DOMAIN mLogSegments = {} \/ S < SetMin(DOMAIN mLogSegments)

\* C9 as stated: with checkpointFlag = true, -ENOENT and no routing when the
\* table is empty or startLogSeq >= 0 names no checkpoint; with checkpointFlag
\* = false, -ENOENT when the requested sequence is before the oldest segment
\* or no segment exists.
C9_MissingIsENOENT ==
    /\ NoCheckpointIsENOENT
    /\ \A S \in -1..MaxSeq, p \in ReadPositions :
          BeforeOldest(S) => Rejected(HandleEffect(FALSE, S, p), -ENOENT)

\* C9, amended: the log segment part holds for readPos <= 0 and
\* startLogSeq >= 0.
C9_MissingIsENOENTAtReadPosZero ==
    /\ NoCheckpointIsENOENT
    /\ \A S \in Seqs, p \in ReadPositions :
          (p <= 0 /\ BeforeOldest(S))
              => Rejected(HandleEffect(FALSE, S, p), -ENOENT)

\* C9, its cases: a running store that takes calls, a checkpoint table that
\* lacks a sequence number, and a sequence number before the oldest segment.
C9_Witness ==
    /\ HandleCallable /\ mWorkersPtr
    /\ DOMAIN mCheckpoints # {} /\ \E S \in Seqs : S \notin DOMAIN mCheckpoints
    /\ DOMAIN mLogSegments # {} /\ \E S \in Seqs : S < SetMin(DOMAIN mLogSegments)

\* Handle with checkpointFlag set and startLogSeq < 0.
ReadNewestCheckpoint ==
    /\ Routed(HandleEffect(TRUE, -1, 1), mCheckpoints,
              HandleEffect(TRUE, -1, 1).cp, SetMax(DOMAIN mCheckpoints))
    /\ HandleEffect(TRUE, -1, 1).op.readPos = 0

\* C10: on a running store with a non-empty checkpoint table, Handle with
\* checkpointFlag = true and startLogSeq < 0 takes the checkpoint with the
\* largest logSeq, rewrites startLogSeq to it, resets readPos to 0 and queues
\* the op on that checkpoint's worker.
C10_NewestCheckpointRouted ==
    (HandleCallable /\ mWorkersPtr /\ DOMAIN mCheckpoints # {})
        => ReadNewestCheckpoint

\* C10 where the newest checkpoint's thread index is below the worker count.
C10_RoutedWhenThreadIdxValid ==
    (HandleCallable /\ mWorkersPtr /\ DOMAIN mCheckpoints # {} /\
     mCheckpoints[SetMax(DOMAIN mCheckpoints)].mThreadIdx < mWorkersCount)
        => ReadNewestCheckpoint


\* The ops of a queue.
QueueOps(q) == {q[i] : i \in DOMAIN q}

\* No entry that stays in its table changes its mThreadIdx.
ThreadIdxKept ==
    /\ \A k \in DOMAIN mCheckpoints \cap DOMAIN mCheckpoints' :
          mCheckpoints'[k].mThreadIdx = mCheckpoints[k].mThreadIdx
    /\ \A k \in DOMAIN mLogSegments \cap DOMAIN mLogSegments' :
          mLogSegments'[k].mThreadIdx = mLogSegments[k].mThreadIdx

\* QCASSERT(0 <= mThreadIdx && mThreadIdx < mWorkersCount), the test
ThreadIdxValid(e) == 0 <= e.mThreadIdx /\ e.mThreadIdx < mWorkersCount

\* A read that Handle accepts (with inValidOnly: for an entry whose thread
\* index is valid) is pushed on the queue of workers[mThreadIdx] and on no
\* other.
AcceptedGoesToOwner(inValidOnly) ==
    (HandleCallable /\ mWorkersPtr) =>
        \A cf \in BOOLEAN, S \in -1..MaxSeq, p \in ReadPositions :
            LET h == HandleEffect(cf, S, p)
                tbl == IF cf THEN mCheckpoints ELSE mLogSegments
                tbl2 == IF cf THEN h.cp ELSE h.ls
            IN  (/\ h.op.status = 0
                 /\ inValidOnly => ThreadIdxValid(tbl[h.op.startLogSeq])) =>
                    Routed(h, tbl, tbl2, h.op.startLogSeq)

\* Every queued op waits on the queue of its entry's worker.
QueuedAtOwner ==
    \A w \in WorkerIds : \A id \in QueueOps(mQueue[w]) :
        LET tbl == IF ops[id].checkpointFlag THEN mCheckpoints ELSE mLogSegments
        IN  ops[id].startLogSeq \in DOMAIN tbl =>
                tbl[ops[id].startLogSeq].mThreadIdx = w

\* A worker takes into Read, and completes, only ops of its own queue.
ExecutedByOwner ==
    /\ \A w \in WorkerIds :
          (wCur'[w] # 0 /\ wCur'[w] # wCur[w]) => wCur'[w] \in QueueOps(mQueue[w])
    /\ \A w \in WorkerIds :
          (mQueue'[w] # mQueue[w] \/ wCur'[w] # wCur[w]) =>
              QueueOps(mDoneQueue') \ QueueOps(mDoneQueue)
                  \subseteq QueueOps(mQueue[w]) \cup {wCur[w]}

\* C26: an entry's mThreadIdx never changes, every read that Handle accepts
\* is queued on workers[mThreadIdx] of its entry and only there, and a worker
\* executes only the ops of its own queue.
C26_WorkerAffinity ==
    /\ [](AcceptedGoesToOwner(FALSE) /\ QueuedAtOwner)
    /\ [][ThreadIdxKept /\ ExecutedByOwner]_vars

\* C26 for the entries whose thread index is below the worker count.
C26_AffinityWhenThreadIdxValid ==
    /\ [](AcceptedGoesToOwner(TRUE) /\ QueuedAtOwner)
    /\ [][ThreadIdxKept /\ ExecutedByOwner]_vars

AtRest ==
    /\ Quiescent /\ mLogSegmentsLru = <<>>
    /\ \A k \in DOMAIN mLogSegments : mLogSegments[k].mUseCount = 0

\* C28: an entry marked pendingDelete is removed by an expiration pass once
\* its useCount is 0: a pass that finds the store at rest and changes nothing
\* (so that no later pass removes anything either) leaves no marked entry in
\* the tables.
C28_PendingDeleteRemoved ==
    [][(PassEnds /\ AtRest /\ UNCHANGED <<tableVars, pruneVars>>)
        => /\ \A k \in DOMAIN mCheckpoints : ~mCheckpoints[k].mPendingDeleteFlag
           /\ \A k \in DOMAIN mLogSegments : ~mLogSegments[k].mPendingDeleteFlag]_vars

\* The arguments of Handle.
HandleInputs == BOOLEAN \X (-1..MaxSeq) \X ReadPositions

\* The errors Handle returns.
HandleErrors == {-ENOENT, -EINVAL, -EFAULT}

\* C29: a call of Handle that sets an error status (-ENOENT, also when the
\* store is not started, -EINVAL or -EFAULT) leaves the store as it was: no
\* entry, LRU list, worker queue or condition changes, pendingCount is
\* kept, and the op is on no worker queue.  (The done-queue is not among
\* the fields Handle writes.)
C29_ErrorLeavesStoreUnchanged ==
    (fault = "none" /\ MutexFree) =>
        \A x \in HandleInputs :
            LET h == HandleEffect(x[1], x[2], x[3])
            IN  h.op.status # 0 =>
                  /\ h.op.status \in HandleErrors
                  /\ Rejected(h, h.op.status)
                  /\ h.op.startLogSeq = x[2] /\ h.op.readPos = x[3]

\* A read is in flight on a started store, and there are arguments Handle
\* answers with each of the three errors.
C29_Witness ==
    /\ fault = "none" /\ MutexFree /\ mWorkersPtr /\ mPendingCount > 0
    /\ \A e \in HandleErrors :
          \E x \in HandleInputs : HandleEffect(x[1], x[2], x[3]).op.status = e

\* The accepted reads a worker holds: those on its queue and the one its
\* Process call is working on.
RECURSIVE HeldByWorkers(_)
HeldByWorkers(inWorkers) ==
    IF inWorkers = {} THEN 0
    ELSE LET w == CHOOSE v \in inWorkers : TRUE
         IN  Len(mQueue[w]) + (IF wCur[w] # 0 THEN 1 ELSE 0)
                 + HeldByWorkers(inWorkers \ {w})

\* C35: mPendingCount is the number of accepted reads that are in worker
\* queues or being processed; it is never negative, and
\* QCASSERT(0 < mPendingCount) has not failed.
C35_PendingCountMatchesQueues ==
    /\ mPendingCount = HeldByWorkers(WorkerIds)
    /\ mPendingCount >= 0
    /\ fault # "QCASSERT(0 < mPendingCount)"

\* The checkpoints of the table that are marked for deletion.
PendingDeleteCheckpoints ==
    {k \in DOMAIN mCheckpoints : mCheckpoints[k].mPendingDeleteFlag}

\* C36: mPendingDeleteCount is the number of checkpoints in the table whose
\* mPendingDeleteFlag is set, and Expire's
\* QCASSERT(0 <= theDelta && theDelta <= mPendingDeleteCount) has not failed.
C36_PendingDeleteCountMatchesFlags ==
    /\ mPendingDeleteCount = Cardinality(PendingDeleteCheckpoints)
    /\ fault # "QCASSERT(theDelta <= mPendingDeleteCount)"

\* C37: the thread index of every entry Handle routes a read to is inside
\* the workers array: QCASSERT(0 <= mThreadIdx && mThreadIdx < mWorkersCount)
\* has not failed, and no read Handle can accept in a started store fails it.
C37_ThreadIdxInRange ==
    /\ fault # "QCASSERT(mThreadIdx < mWorkersCount)"
    /\ (HandleCallable /\ mWorkersPtr) =>
          \A x \in HandleInputs :
              LET h == HandleEffect(x[1], x[2], x[3])
                  tbl == IF x[1] THEN mCheckpoints ELSE mLogSegments
              IN  h.op.status = 0 =>
                      /\ ThreadIdxValid(tbl[h.op.startLogSeq])
                      /\ h.fault = fault

\* ------------------------------------------------------------- Shutdown
\* Shutdown up to its first Join: it returns at once for a store that is
\* stopped or has no workers, else raises mStopFlag and wakes worker 0.
ShutdownBegin ==
    /\ fault = "none" /\ MutexFree
    /\ shutIdx < 0
    /\ ~mStopFlag /\ mWorkersPtr
    /\ mStopFlag' = TRUE
    /\ mCond' = Notify(mCond, 0)
    /\ shutIdx' = 0
    /\ UNCHANGED <<mWorkersPtr, mWorkersCount, doneVars, tableVars, pruneVars,
                   mMaxCheckpointsToKeepCount, mCurThreadIdx, mPendingCount,
                   mNow, mQueue, wPc, wCur, theDeleteList, theCloseList,
                   ops, nextOp, submitted, registered, fault, rdVars,
                   gMetaServerSM>>

\* Join of worker shutIdx returns once its thread has left Run; Shutdown then
\* wakes the next worker, or after the last one deletes the workers.  The
\* queue of a deleted worker is kept as it was left: nothing pops it any more.
ShutdownJoin ==
    /\ fault = "none" /\ MutexFree
    /\ 0 <= shutIdx /\ wPc[shutIdx] = "exited"
    /\ IF shutIdx + 1 < mWorkersCount
       THEN /\ mCond' = Notify(mCond, shutIdx + 1)
            /\ shutIdx' = shutIdx + 1
            /\ UNCHANGED <<mWorkersCount, mWorkersPtr, wPc>>
       ELSE /\ mWorkersCount' = 0
            /\ mWorkersPtr' = FALSE
            /\ shutIdx' = -1
            /\ wPc' = [w \in WorkerIds |-> "none"]
            /\ UNCHANGED mCond
    /\ UNCHANGED <<mStopFlag, doneVars, tableVars, pruneVars,
                   mMaxCheckpointsToKeepCount, mCurThreadIdx, mPendingCount,
                   mNow, mQueue, wCur, theDeleteList, theCloseList,
                   ops, nextOp, submitted, registered, fault, rdVars,
                   gMetaServerSM>>

\* The event-loop thread is not inside Shutdown.
NotInShutdown == shutIdx < 0

\* The budget of a behaviour with Shutdown: MaxLifeFiles registrations,
\* MaxReaders accepted reads.
MaxLifeFiles == 1
MaxReaders == 2
LifeFilesLeft == Cardinality(registered) < MaxLifeFiles
ReadersLeft == nextOp <= MaxReaders

\* The store with Shutdown and several readers of one file.  SetParameters,
\* Register*, Start, Handle, Timeout and Shutdown are calls of one thread.
LifeNext ==
    \/ \E t \in ThreadCounts :
          NotInShutdown /\ SetParameters(mMaxCheckpointsToKeepCount, t)
                        /\ UNCHANGED sideVars
    \/ \E s \in Seqs :
          NotInShutdown /\ LifeFilesLeft /\ RegisterCheckpoint(s)
                        /\ UNCHANGED sideVars
    \/ \E s \in Seqs, e \in Seqs :
          NotInShutdown /\ LifeFilesLeft /\ RegisterLogSegment(s, e)
                        /\ UNCHANGED sideVars
    \/ NotInShutdown /\ Start /\ UNCHANGED sideVars
    \/ \E cf \in BOOLEAN, s \in -1..MaxSeq, p \in ReadPositions :
          NotInShutdown /\ ReadersLeft /\ Handle(cf, s, p) /\ UNCHANGED sideVars
    \/ \E w \in WorkerIds : WorkerEnter(w) /\ UNCHANGED sideVars
    \/ \E w \in WorkerIds : WorkerRun(w) /\ UNCHANGED sideVars
    \/ \E w \in WorkerIds, r \in {"ok", "openFail", "readFail"}, c \in BOOLEAN :
          WorkerIo(w, r, c) /\ UNCHANGED sideVars
    \/ \E w \in WorkerIds, c \in BOOLEAN : WorkerIoDone(w, c) /\ UNCHANGED sideVars
    \/ \E w \in WorkerIds : WorkerPass(w) /\ UNCHANGED sideVars
    \/ \E w \in WorkerIds : WorkerCleanup(w) /\ UNCHANGED sideVars
    \/ \E d \in ClockSteps : NotInShutdown /\ Timeout(d) /\ UNCHANGED sideVars
    \/ ShutdownBegin
    \/ ShutdownJoin

LifeSpec == Init /\ [][LifeNext]_vars

\* ------------------------------------------------------------------- C12
\* Shutdown has returned: the store is stopped and its workers are deleted.
AfterShutdown == mStopFlag /\ ~mWorkersPtr /\ NotInShutdown

\* C12: once Shutdown has returned, no read that Handle accepted is left in
\* a worker queue: each one was completed (by Read, or with -ECANCELED) and
\* went to the done queue.
C12_ShutdownLeavesNoQueuedRead ==
    AfterShutdown => \A w \in WorkerIds : mQueue[w] = <<>>

\* ------------------------------------------------------------------- C13
\* Log segment k has its file open and is in use, or was last touched no
\* longer than the inactivity threshold ago.
HeldOpen(k) ==
    /\ k \in DOMAIN mLogSegments
    /\ 0 <= mLogSegments[k].mFd
    /\ \/ 0 < mLogSegments[k].mUseCount
       \/ ~(mLogSegments[k].mAccessTime < mNow - kMaxInactiveTime)

\* C13: from the first open of a log segment's file until all the reads
\* accepted for it have completed and the inactivity threshold has elapsed,
\* the entry keeps the one descriptor it has: no step closes it, replaces it
\* or erases the entry, so Read, which opens only when mFd < 0, does not open
\* the file a second time.
C13_OneDescriptorWhileHeld ==
    [][\A k \in Seqs :
          HeldOpen(k) =>
              /\ k \in DOMAIN mLogSegments'
              /\ mLogSegments'[k].mFd = mLogSegments[k].mFd]_vars

\* A worker is in Read, mutex released, for a log segment whose file an
\* earlier read has opened.
C13_Witness ==
    \E w \in WorkerIds :
        /\ wPc[w] = "io"
        /\ wCur[w] \in DOMAIN ops
        /\ ~ops[wCur[w]].checkpointFlag
        /\ HeldOpen(ops[wCur[w]].startLogSeq)
        /\ Len(submitted) + Len(mDoneQueue) >= 1

\* ------------------------------------------------- Read on one descriptor
\* mMaxReadSize: 2 << 20 after construction, at least 64 << 10 after
\* SetParameters.
kMaxReadSizeDefault == 2097152
kMinMaxReadSize == 65536
MaxReadSizes == {kMinMaxReadSize, kMaxReadSizeDefault}

\* The reads made on one entry: their number, the length of the entry's file,
\* and the readPos and readSize the ops carry.
MaxReads == 3
MaxFileLen == 65538
RdPositions == {0, 1, kMinMaxReadSize}
RdSizes == {1, kMinMaxReadSize + 1}

Min2(a, b) == IF a < b THEN a ELSE b

\* data.Read(fd, n): the buffer is filled by reading the descriptor, which
\* gives the bytes at the descriptor's position, n of them or as many as the
\* file has left.
BufferRead(inOffset, inMaxRead) == Min2(inMaxRead, MaxFileLen - inOffset)

\* Read, mutex released, on an entry of its own: open when mFd < 0, then
\* data.Read(mFd, min(theMaxRead, readSize)).  readPos is a field of the op
\* which Read does not use.
RdRead(inReadPos, inReadSize, inMaxRead, inResult) ==
    /\ rdReads < MaxReads
    /\ inResult = "openFail" => rdFd < 0
    /\ LET theFd == IF 0 <= rdFd THEN rdFd
                    ELSE IF inResult = "openFail" THEN -1 ELSE FdOf(FALSE, 0)
           theOffset == IF 0 <= rdFd THEN rdOffset ELSE 0
           theNumRd == IF inResult = "ok"
                       THEN BufferRead(theOffset, Min2(inMaxRead, inReadSize))
                       ELSE 0
       IN  /\ rdFd' = theFd
           /\ rdOffset' = theOffset + theNumRd
           /\ rdLast' = [readPos |-> inReadPos, readSize |-> inReadSize,
                         maxRead |-> inMaxRead, from |-> theOffset,
                         count |-> theNumRd,
                         status |-> IF inResult = "ok" THEN 0 ELSE -EIO]
    /\ rdReads' = rdReads + 1
    /\ UNCHANGED <<storeVars, shutIdx, gMetaServerSM>>

\* Expire closes the descriptor of the idle entry.
RdExpire ==
    /\ 0 <= rdFd
    /\ rdFd' = -1
    /\ rdOffset' = 0
    /\ UNCHANGED <<rdReads, rdLast, storeVars, shutIdx, gMetaServerSM>>

RdNext ==
    \/ \E p \in RdPositions, n \in RdSizes, m \in MaxReadSizes,
          r \in {"ok", "openFail", "readFail"} : RdRead(p, n, m, r)
    \/ RdExpire

ReadSpec == Init /\ [][RdNext]_vars

\* ------------------------------------------------------------------- C11
\* C11: a read that succeeded got the bytes of the file that start at the
\* op's readPos, at most min(maxReadSize, readSize) of them, whatever reads
\* were made on the entry's descriptor before it.
C11_ReadStartsAtReadPos ==
    (0 < rdReads /\ rdLast.status = 0) =>
        /\ rdLast.from = rdLast.readPos
        /\ rdLast.count <= Min2(rdLast.maxRead, rdLast.readSize)

\* ------------------------------------------ MetaServerSM.cc, the handlers
IsConnected(s) == s.mNetConnection \in {"connecting", "good"}
IsHandshakeDone(s) == s.mSentHello /\ s.mHelloOp = NoHello
IsUp(s) == IsConnected(s) /\ IsHandshakeDone(s)

\* nextSeq() returns mCmdSeq and advances it.
NextSeq(s) == [s EXCEPT !.mCmdSeq = @ + 1]

\* SubmitOpResponse(op): the op is handed back to its owner.
SubmitOpResponse(s, id, inStatus) ==
    [s EXCEPT !.completions[id] = Append(@, inStatus),
              !.kfsOps[id].state = "done"]

\* delete of a command op.
DeleteCmd(s, c) == [s EXCEPT !.cmds[c] = NoCmd]

CleanupOpInFlight(s) ==
    LET s1 == IF s.mOp.kind = "cmd" THEN DeleteCmd(s, s.mOp.id) ELSE s
    IN  [s1 EXCEPT !.mOp = NoOp]

DetachAndDeleteAuthOp(s) ==
    [s EXCEPT !.mAuthOp = 0, !.authReqShortRpcFmtFlag = FALSE]

\* A hello op that is deleted while SubmitOp runs it calls back later on
\* freed memory.
DetachAndDeleteHelloOp(s) ==
    [s EXCEPT !.mHelloOp = NoHello,
              !.mOp = IF s.mOp.kind = "hello" THEN NoOp ELSE @,
              !.helloRunning = FALSE,
              !.staleHello = @ \/ s.helloRunning]

RECURSIVE DiscardPendingResponses(_)
DiscardPendingResponses(s) ==
    IF s.mPendingResponses = <<>> THEN s
    ELSE DiscardPendingResponses(
            [DeleteCmd(s, Head(s.mPendingResponses))
                EXCEPT !.mPendingResponses = Tail(s.mPendingResponses)])

\* Error(msg): msg goes to the log only.
\* The ops of mDispatchedOps in the order of their sequence numbers.
RECURSIVE DispatchedSeq(_)
DispatchedSeq(d) ==
    IF d = {} THEN <<>>
    ELSE LET e == CHOOSE x \in d : \A y \in d : x[1] <= y[1]
         IN  <<e[2]>> \o DispatchedSeq(d \ {e})

RECURSIVE FailAll(_, _)
FailAll(s, doneOps) ==
    IF doneOps = <<>> THEN s
    ELSE FailAll(SubmitOpResponse(s, Head(doneOps), -EHOSTUNREACH), Tail(doneOps))

\* FailOps as Error calls it: the completions are taken to enqueue nothing,
\* and the loop ends after one round.
FailOpsDispatchedOnly(s, shutdownFlag) ==
    FailAll([s EXCEPT !.mDispatchedOps = {}], DispatchedSeq(s.mDispatchedOps))

FailOps(s, shutdownFlag) ==
    LET doneOps == DispatchedSeq(s.mDispatchedOps) \o s.mPendingOps
    IN  FailAll([s EXCEPT !.mDispatchedOps = {}, !.mPendingOps = <<>>], doneOps)

Error(s, msg) ==
    LET s1 == DiscardPendingResponses(DetachAndDeleteAuthOp(CleanupOpInFlight(s)))
        s2 == IF s1.mNetConnection # "null"
              THEN [s1 EXCEPT !.mGenerationCount = @ + 1,
                              !.mNetConnection = "closed"]
              ELSE s1
        s3 == FailOps(s2, ~s2.running)
    IN  DetachAndDeleteHelloOp([s3 EXCEPT !.mSentHello = FALSE])

RECURSIVE DispatchLoopNoWindow(_, _, _)
DispatchLoopNoWindow(s, cnt, doneOps) ==
    IF s.mPendingOps # <<>>
    THEN LET id == Head(s.mPendingOps)
             seq == s.mCmdSeq
             s1 == NextSeq([s EXCEPT !.mPendingOps = Tail(@)])
         IN  IF s.kfsOps[id].noReply
             THEN DispatchLoopNoWindow([s1 EXCEPT !.kfsOps[id].state = "sent"],
                                       cnt + 1, Append(doneOps, id))
             ELSE DispatchLoopNoWindow(
                     [s1 EXCEPT !.mDispatchedOps = @ \cup {<<seq, id>>},
                                !.kfsOps[id].state = "dispatched"],
                     cnt + 1, doneOps)
    ELSE [s |-> s, doneOps |-> doneOps]

\* Request(op) writes the request to the connection's out buffer.
RECURSIVE DispatchLoop(_, _, _)
DispatchLoop(s, cnt, doneOps) ==
    IF cnt < s.mMaxPendingOpsCount /\ s.mPendingOps # <<>>
    THEN LET id == Head(s.mPendingOps)
             seq == s.mCmdSeq
             s1 == NextSeq([s EXCEPT !.mPendingOps = Tail(@)])
         IN  IF s.kfsOps[id].noReply
             THEN DispatchLoop([s1 EXCEPT !.kfsOps[id].state = "sent"],
                               cnt + 1, Append(doneOps, id))
             ELSE DispatchLoop([s1 EXCEPT !.mDispatchedOps = @ \cup {<<seq, id>>},
                                          !.kfsOps[id].state = "dispatched"],
                               cnt + 1, doneOps)
    ELSE [s |-> s, doneOps |-> doneOps]

RECURSIVE CompleteAll(_, _)
CompleteAll(s, doneOps) ==
    IF doneOps = <<>> THEN s
    ELSE CompleteAll(SubmitOpResponse(s, Head(doneOps), 0), Tail(doneOps))

\* DispatchOps without the test of mAuthOp.
DispatchOpsDuringAuth(s) ==
    IF ~IsUp(s) \/ s.mPendingOps = <<>> THEN s
    ELSE LET r == DispatchLoop(s, Cardinality(s.mDispatchedOps), <<>>)
         IN  CompleteAll(r.s, r.doneOps)

DispatchOps(s) ==
    IF ~IsUp(s) \/ s.mAuthOp # 0 \/ s.mPendingOps = <<>> THEN s
    ELSE LET r == DispatchLoop(s, Cardinality(s.mDispatchedOps), <<>>)
         IN  CompleteAll(r.s, r.doneOps)

\* EnqueueOp without the test of mPendingOps.
EnqueueOpPastPending(s, id) ==
    IF s.mAuthOp = 0 /\ IsUp(s) /\
       Cardinality(s.mDispatchedOps) < s.mMaxPendingOpsCount
    THEN LET seq == s.mCmdSeq
             s1 == NextSeq(s)
         IN  IF s.kfsOps[id].noReply
             THEN SubmitOpResponse(s1, id, 0)
             ELSE [s1 EXCEPT !.mDispatchedOps = @ \cup {<<seq, id>>},
                             !.kfsOps[id].state = "dispatched"]
    ELSE IF s.running /\ s.locationValid
         THEN [s EXCEPT !.mPendingOps = Append(@, id),
                        !.kfsOps[id].state = "pending"]
         ELSE SubmitOpResponse(s, id, -EHOSTUNREACH)

EnqueueOp(s, id) ==
    IF s.mAuthOp = 0 /\ s.mPendingOps = <<>> /\ IsUp(s) /\
       Cardinality(s.mDispatchedOps) < s.mMaxPendingOpsCount
    THEN LET seq == s.mCmdSeq
             s1 == NextSeq(s)
         IN  IF s.kfsOps[id].noReply
             THEN SubmitOpResponse(s1, id, 0)
             ELSE [s1 EXCEPT !.mDispatchedOps = @ \cup {<<seq, id>>},
                             !.kfsOps[id].state = "dispatched"]
    ELSE IF s.running /\ s.locationValid
         THEN [s EXCEPT !.mPendingOps = Append(@, id),
                        !.kfsOps[id].state = "pending"]
         ELSE SubmitOpResponse(s, id, -EHOSTUNREACH)

SubmitHelloNoResume(s, inLostDirs) ==
    IF s.mHelloOp # NoHello
    THEN [s EXCEPT !.smFault = "die: invalid submit hello invocation"]
    ELSE [NextSeq(s) EXCEPT
            !.mHelloOp = [seq |-> s.mCmdSeq, resumeStep |-> -1,
                          lostChunkDirs |-> inLostDirs,
                          reqShortRpcFmtFlag |-> s.mRpcFormat # "short"],
            !.helloRunning = TRUE]

\* SubmitOp(mHelloOp): the hello op is executed and calls back with
\* EVENT_CMD_DONE.
SubmitHello(s, inLostDirs) ==
    IF s.mHelloOp # NoHello
    THEN [s EXCEPT !.smFault = "die: invalid submit hello invocation"]
    ELSE [NextSeq(s) EXCEPT
            !.mHelloOp = [seq |-> s.mCmdSeq,
                          resumeStep |-> IF s.mHelloResume < 0 THEN 0 ELSE -1,
                          lostChunkDirs |-> inLostDirs,
                          reqShortRpcFmtFlag |-> s.mRpcFormat # "short"],
            !.helloRunning = TRUE]

\* Authenticate() returns true when it took over: the result is the state
\* and whether SendHello goes on to SubmitHello.
Authenticate(s, inRequestErr) ==
    IF ~s.authEnabled THEN [s |-> s, started |-> FALSE]
    ELSE IF s.mAuthOp # 0
    THEN [s |-> [s EXCEPT !.smFault = "die: auth is in flight"], started |-> TRUE]
    ELSE LET s1 == [NextSeq(s) EXCEPT
                      !.mAuthOp = s.mCmdSeq,
                      !.authReqShortRpcFmtFlag = s.mRpcFormat # "short"]
         IN  IF inRequestErr
             THEN [s |-> Error(DetachAndDeleteAuthOp(s1), "authentication error"),
                   started |-> TRUE]
             ELSE [s |-> s1, started |-> TRUE]

\* inEnv: what the calls outside the object give during the handler.
SendHello(s, inEnv) ==
    IF s.mHelloOp # NoHello \/ s.mAuthOp # 0 THEN s
    ELSE IF ~IsConnected(s)
    THEN IF s.mNetConnection # "null" THEN Error(s, "network error") ELSE s
    ELSE IF inEnv.sockName = "error" THEN Error(s, "get socket name error")
    ELSE IF inEnv.sockName = "invalid" THEN Error(s, "invalid socket address")
    ELSE LET a == Authenticate(s, inEnv.authRequestErr)
         IN  IF a.started THEN a.s ELSE SubmitHello(a.s, inEnv.lostDirs)

Connect(s, inEnv) ==
    IF s.mHelloOp # NoHello THEN s
    ELSE LET s1 == DiscardPendingResponses(
                       DetachAndDeleteAuthOp(CleanupOpInFlight(s)))
             s2 == [s1 EXCEPT !.mGenerationCount = @ + 1,
                              !.mRpcFormat = "undef", !.mSentHello = FALSE]
         IN  IF inEnv.connect = "fail" THEN s2
             ELSE IF inEnv.connect = "inprogress"
             THEN [s2 EXCEPT !.mNetConnection = "connecting"]
             ELSE SendHello([s2 EXCEPT !.mNetConnection = "good"], inEnv)

DispatchHello(s) ==
    IF s.mSentHello \/ s.mAuthOp # 0
    THEN [s EXCEPT !.smFault = "die: dispatch hello: invalid invocation"]
    ELSE IF ~IsConnected(s)
    THEN DetachAndDeleteHelloOp(
            DetachAndDeleteAuthOp([s EXCEPT !.mSentHello = FALSE]))
    ELSE [s EXCEPT !.mSentHello = TRUE]

\* The test Timeout makes before Connect, on the clock of the event loop.
ConnectDueEverySecond(inLastConnectTime, inNow) == inLastConnectTime < inNow

ConnectDue(inLastConnectTime, inNow) == inLastConnectTime + 1 < inNow

TimeoutEffectNoInactivityTest(s, inEnv) ==
    LET s2 == IF s.mReconnectFlag
              THEN Error([s EXCEPT !.mReconnectFlag = FALSE],
                         "meta server reconnect requested")
              ELSE s
    IN  IF ~IsConnected(s2)
        THEN IF s2.mHelloOp # NoHello /\ ~s2.mSentHello THEN s2
             ELSE LET s3 == IF s2.mHelloOp # NoHello
                            THEN DetachAndDeleteHelloOp(
                                    [s2 EXCEPT !.mSentHello = FALSE])
                            ELSE s2
                  IN  IF inEnv.connectDue
                      THEN Connect([s3 EXCEPT !.connectCalled = TRUE], inEnv)
                      ELSE s3
        ELSE IF s2.mAuthOp # 0 \/ ~IsHandshakeDone(s2) THEN s2
        ELSE DispatchOps(s2)

\* The inactivity test of Timeout on the clock of the event loop, in seconds.
LastRecvCmdExpired(inLastRecvCmdTime, inInactivityTimeout, inNow) ==
    inLastRecvCmdTime + inInactivityTimeout < inNow

TimeoutEffect(s, inEnv) ==
    LET s1 == IF s.mReconnectFlag
              THEN Error([s EXCEPT !.mReconnectFlag = FALSE],
                         "meta server reconnect requested")
              ELSE s
        s2 == IF IsConnected(s1) /\ IsHandshakeDone(s1) /\ s1.recvCmdExpired
              THEN Error(s1, "heartbeat request timeout")
              ELSE s1
    IN  IF ~IsConnected(s2)
        THEN IF s2.mHelloOp # NoHello /\ ~s2.mSentHello THEN s2
             ELSE LET s3 == IF s2.mHelloOp # NoHello
                            THEN DetachAndDeleteHelloOp(
                                    [s2 EXCEPT !.mSentHello = FALSE])
                            ELSE s2
                  IN  IF inEnv.connectDue
                      THEN Connect([s3 EXCEPT !.connectCalled = TRUE], inEnv)
                      ELSE s3
        ELSE IF s2.mAuthOp # 0 \/ ~IsHandshakeDone(s2) THEN s2
        ELSE DispatchOps(s2)

\* SendResponse(op): the response is dropped, queued behind the
\* authentication, or written; the op is deleted unless it was queued.
\* A response written is recorded with its place in the out buffer among
\* those of the handler.
SendResponseAnyGeneration(s, c) ==
    LET stamp == [accepted |-> s.cmds[c].generation, at |-> s.mGenerationCount,
                  cmd |-> 0, pos |-> 0]
        discardFlag == ~s.mSentHello \/ ~IsConnected(s)
    IN  IF discardFlag
        THEN [DeleteCmd(s, c) EXCEPT !.discarded = @ \cup {stamp}]
        ELSE IF s.mAuthOp # 0
        THEN [s EXCEPT !.mPendingResponses = Append(@, c),
                       !.cmds[c].state = "pendingResponse"]
        ELSE [DeleteCmd(s, c) EXCEPT
                !.written = @ \cup {[stamp EXCEPT !.cmd = c,
                                                  !.pos = Cardinality(s.written) + 1]}]

SendResponse(s, c) ==
    LET stamp == [accepted |-> s.cmds[c].generation, at |-> s.mGenerationCount,
                  cmd |-> 0, pos |-> 0]
        discardFlag == \/ ~s.mSentHello
                       \/ s.cmds[c].generation # s.mGenerationCount
                       \/ ~IsConnected(s)
    IN  IF discardFlag
        THEN [DeleteCmd(s, c) EXCEPT !.discarded = @ \cup {stamp}]
        ELSE IF s.mAuthOp # 0
        THEN [s EXCEPT !.mPendingResponses = Append(@, c),
                       !.cmds[c].state = "pendingResponse"]
        ELSE [DeleteCmd(s, c) EXCEPT
                !.written = @ \cup {[stamp EXCEPT !.cmd = c,
                                                  !.pos = Cardinality(s.written) + 1]}]

RECURSIVE FlushPendingResponsesBackwards(_)
FlushPendingResponsesBackwards(s) ==
    IF s.mPendingResponses = <<>> THEN s
    ELSE FlushPendingResponsesBackwards(
            SendResponse([s EXCEPT !.mPendingResponses =
                                      SubSeq(@, 1, Len(@) - 1)],
                         s.mPendingResponses[Len(s.mPendingResponses)]))

\* HandleAuthResponse, handshake done: PopFront and SendResponse until
\* mPendingResponses is empty.
RECURSIVE FlushPendingResponses(_)
FlushPendingResponses(s) ==
    IF s.mPendingResponses = <<>> THEN s
    ELSE FlushPendingResponses(
            SendResponse([s EXCEPT !.mPendingResponses = Tail(@)],
                         Head(s.mPendingResponses)))

\* inEnv.authOk: the response is complete, has no extraneous data, status 0,
\* and mAuthContext.Response accepts it.  The connection has no filter.
HandleAuthResponse(s, inEnv) ==
    IF s.mAuthOp = 0 \/ s.mNetConnection = "null"
    THEN [s EXCEPT !.smFault = "die: handle auth response: invalid invocation"]
    ELSE LET s1 == DetachAndDeleteAuthOp(s)
         IN  IF ~inEnv.authOk THEN Error(s1, "authentication protocol error")
             ELSE IF IsHandshakeDone(s1) THEN FlushPendingResponses(s1)
             ELSE IF s1.mHelloOp # NoHello
             THEN [s1 EXCEPT !.smFault =
                     "die: hello op in flight prior to authentication completion"]
             ELSE SubmitHello(DiscardPendingResponses(s1), inEnv.lostDirs)

\* The free op ids kept for the CorruptChunkOp of the handshake.
CorruptIds == (MaxSmOps + 1)..(MaxSmOps + MaxLostDirs)
FreeCorruptIds(s) == {id \in CorruptIds : s.kfsOps[id].state = "free"}

RECURSIVE EnqueueLostDirs(_, _, _)
EnqueueLostDirs(s, n, inNoReply) ==
    IF n = 0 \/ ~IsConnected(s) \/ FreeCorruptIds(s) = {} THEN s
    ELSE LET id == CHOOSE x \in FreeCorruptIds(s) :
                       \A y \in FreeCorruptIds(s) : x <= y
         IN  EnqueueLostDirs(
                EnqueueOp([s EXCEPT !.kfsOps[id] =
                              [noReply |-> inNoReply, corrupt |-> TRUE,
                               state |-> "new"]], id),
                n - 1, inNoReply)

HelloReplyKeyMismatchIsError(s, m, inEnv) ==
    LET h == s.mHelloOp
        resumeStep == IF m.status = 0 THEN m.resume ELSE -1
        hasContent == m.content # "none"
        errorFlag ==
            \/ m.seq # h.seq
            \/ (m.status # 0 /\ hasContent)
            \/ (h.resumeStep # 0 /\ hasContent)
            \/ (h.resumeStep < 0 /\ m.status # 0)
            \/ (0 <= h.resumeStep /\ m.status # 0 /\ m.status # -EAGAIN)
            \/ (0 <= h.resumeStep /\ m.status = 0 /\ resumeStep # h.resumeStep)
    IN  IF ~errorFlag /\ m.status # 0
        THEN [s |-> [NextSeq(s) EXCEPT !.mHelloOp.resumeStep = -1,
                                       !.mHelloOp.seq = s.mCmdSeq,
                                       !.mSentHello = FALSE,
                                       !.helloRunning = TRUE],
              goOn |-> FALSE]
        ELSE LET s1 == IF errorFlag THEN s
                       ELSE [s EXCEPT !.mMaxPendingOpsCount = Max2(1, m.maxPending)]
             IN  IF errorFlag THEN [s |-> Error(s1, "handshake error"), goOn |-> FALSE]
                 ELSE IF h.resumeStep # 0
                 THEN LET s2 == DetachAndDeleteHelloOp(
                                   [s1 EXCEPT !.connectedTimeSet = TRUE])
                      IN  [s |-> IF IsUp(s2)
                                 THEN DispatchOps(EnqueueLostDirs(
                                         s2, h.lostChunkDirs, inEnv.corruptNoReply))
                                 ELSE s2,
                           goOn |-> FALSE]
                 ELSE [s |-> s1, goOn |-> TRUE]

\* HandleReply without the exception for -EAGAIN in errorFlag.
HelloReplyEagainIsError(s, m, inEnv) ==
    LET h == s.mHelloOp
        resumeStep == IF m.status = 0 THEN m.resume ELSE -1
        hasContent == m.content # "none"
        errorFlag ==
            \/ m.seq # h.seq
            \/ (m.status # 0 /\ hasContent)
            \/ (h.resumeStep # 0 /\ hasContent)
            \/ (h.resumeStep < 0 /\ m.status # 0)
            \/ (0 <= h.resumeStep /\ m.status # 0)
            \/ (0 <= h.resumeStep /\ m.status = 0 /\ resumeStep # h.resumeStep)
    IN  IF m.status = -EBADCLUSTERKEY
        THEN [s |-> [s EXCEPT !.running = FALSE], goOn |-> FALSE]
        ELSE IF ~errorFlag /\ m.status # 0
        THEN [s |-> [NextSeq(s) EXCEPT !.mHelloOp.resumeStep = -1,
                                       !.mHelloOp.seq = s.mCmdSeq,
                                       !.mSentHello = FALSE,
                                       !.helloRunning = TRUE],
              goOn |-> FALSE]
        ELSE LET s1 == IF errorFlag THEN s
                       ELSE [s EXCEPT !.mMaxPendingOpsCount = Max2(1, m.maxPending)]
             IN  IF errorFlag THEN [s |-> Error(s1, "handshake error"), goOn |-> FALSE]
                 ELSE IF h.resumeStep # 0
                 THEN LET s2 == DetachAndDeleteHelloOp(
                                   [s1 EXCEPT !.connectedTimeSet = TRUE])
                      IN  [s |-> IF IsUp(s2)
                                 THEN DispatchOps(EnqueueLostDirs(
                                         s2, h.lostChunkDirs, inEnv.corruptNoReply))
                                 ELSE s2,
                           goOn |-> FALSE]
                 ELSE [s |-> s1, goOn |-> TRUE]

\* The reply is for the hello op: the result is the state and whether
\* HandleReply goes on with the hello op as op.
HelloReply(s, m, inEnv) ==
    LET h == s.mHelloOp
        resumeStep == IF m.status = 0 THEN m.resume ELSE -1
        hasContent == m.content # "none"
        errorFlag ==
            \/ m.seq # h.seq
            \/ (m.status # 0 /\ hasContent)
            \/ (h.resumeStep # 0 /\ hasContent)
            \/ (h.resumeStep < 0 /\ m.status # 0)
            \/ (0 <= h.resumeStep /\ m.status # 0 /\ m.status # -EAGAIN)
            \/ (0 <= h.resumeStep /\ m.status = 0 /\ resumeStep # h.resumeStep)
    IN  IF m.status = -EBADCLUSTERKEY
        THEN [s |-> [s EXCEPT !.running = FALSE], goOn |-> FALSE]
        ELSE IF ~errorFlag /\ m.status # 0
        THEN [s |-> [NextSeq(s) EXCEPT !.mHelloOp.resumeStep = -1,
                                       !.mHelloOp.seq = s.mCmdSeq,
                                       !.mSentHello = FALSE,
                                       !.helloRunning = TRUE],
              goOn |-> FALSE]
        ELSE LET s1 == IF errorFlag THEN s
                       ELSE [s EXCEPT !.mMaxPendingOpsCount = Max2(1, m.maxPending)]
             IN  IF errorFlag THEN [s |-> Error(s1, "handshake error"), goOn |-> FALSE]
                 ELSE IF h.resumeStep # 0
                 THEN LET s2 == DetachAndDeleteHelloOp(
                                   [s1 EXCEPT !.connectedTimeSet = TRUE])
                      IN  [s |-> IF IsUp(s2)
                                 THEN DispatchOps(EnqueueLostDirs(
                                         s2, h.lostChunkDirs, inEnv.corruptNoReply))
                                 ELSE s2,
                           goOn |-> FALSE]
                 ELSE [s |-> s1, goOn |-> TRUE]

ReplyContentNoErase(s, op, inContent) ==
    IF inContent = "wait" THEN [s EXCEPT !.mOp = op]
    ELSE IF inContent = "bad" THEN Error(s, "response body parse error")
    ELSE IF op.kind = "hello"
    THEN [NextSeq(s) EXCEPT
            !.mHelloOp.resumeStep = IF @ = 0 THEN 1 ELSE @,
            !.mHelloOp.seq = s.mCmdSeq,
            !.mSentHello = FALSE,
            !.helloRunning = TRUE]
    ELSE SubmitOpResponse(s, op.id, op.status)

\* HandleReply from the test of mContentLength on: op is the hello op or
\* the op of mDispatchedOps with the reply's sequence number.
ReplyContent(s, op, inContent) ==
    IF inContent = "wait" THEN [s EXCEPT !.mOp = op]
    ELSE IF inContent = "bad" THEN Error(s, "response body parse error")
    ELSE IF op.kind = "hello"
    THEN [NextSeq(s) EXCEPT
            !.mHelloOp.resumeStep = IF @ = 0 THEN 1 ELSE @,
            !.mHelloOp.seq = s.mCmdSeq,
            !.mSentHello = FALSE,
            !.helloRunning = TRUE]
    ELSE SubmitOpResponse(
            [s EXCEPT !.mDispatchedOps = {e \in @ : e[2] # op.id}],
            op.id, op.status)

\* NegotiateFormat without the test of key Cseq.
NegotiateFormatIgnoresCseq(s, inMsg) ==
    IF /\ s.mRpcFormat = "undef"
       /\ \/ s.mHelloOp # NoHello /\ s.mHelloOp.reqShortRpcFmtFlag
          \/ s.mAuthOp # 0 /\ s.authReqShortRpcFmtFlag
       /\ inMsg.hasC
    THEN [s EXCEPT !.mRpcFormat = "short"]
    ELSE s

\* The short format is taken when the format is not settled, the hello or
\* auth op in flight asked for it, and the reply has key c and no key Cseq.
NegotiateFormat(s, inMsg) ==
    IF /\ s.mRpcFormat = "undef"
       /\ \/ s.mHelloOp # NoHello /\ s.mHelloOp.reqShortRpcFmtFlag
          \/ s.mAuthOp # 0 /\ s.authReqShortRpcFmtFlag
       /\ ~inMsg.hasCseq /\ inMsg.hasC
    THEN [s EXCEPT !.mRpcFormat = "short"]
    ELSE s

\* prop.getValue(short ? "c" : "Cseq", -1), prop.getValue(short ? "s" :
\* "Status", -1), and so on: a header written with the keys of the other
\* format gives the defaults.
ParsedReply(inRpcFormat, inMsg) ==
    IF (IF inRpcFormat = "short" THEN inMsg.hasC ELSE inMsg.hasCseq)
    THEN inMsg
    ELSE [inMsg EXCEPT !.seq = -1, !.status = -1, !.resume = -1,
                       !.content = "none"]

HandleReplyDropUnmatched(inS, inMsg, inEnv) ==
    LET s == NegotiateFormat(inS, inMsg)
        m == ParsedReply(s.mRpcFormat, inMsg)
    IN
    IF s.mAuthOp # 0 /\ (~IsHandshakeDone(s) \/ m.seq = s.mAuthOp)
    THEN IF m.seq # s.mAuthOp THEN Error(s, "authentication protocol error")
         ELSE IF ~m.parseOk /\ 0 <= m.status
         THEN IF inEnv.crash
              THEN [s EXCEPT !.smFault = "null op dereferenced"]
              ELSE Error(s, "invalid meta server response")
         ELSE HandleAuthResponse(s, [inEnv EXCEPT !.authOk = @ /\ m.status = 0])
    ELSE IF s.mHelloOp # NoHello
    THEN LET r == HelloReply(s, m, inEnv)
         IN  IF r.goOn
             THEN ReplyContent(r.s, [kind |-> "hello", id |-> 0, status |-> m.status],
                               m.content)
             ELSE r.s
    ELSE IF \A e \in s.mDispatchedOps : e[1] # m.seq
    THEN s
    ELSE LET e == CHOOSE x \in s.mDispatchedOps : x[1] = m.seq
         IN  IF ~m.parseOk /\ 0 <= m.status
             THEN Error(s, "meta response parse error")
             ELSE ReplyContent(s, [kind |-> "reply", id |-> e[2], status |-> m.status],
                               m.content)

\* HandleReply for a reply message: mOp is 0.  inMsg is the message as the
\* server wrote it; the format is settled, then the header is read with the
\* keys of that format.
HandleReply(inS, inMsg, inEnv) ==
    LET s == NegotiateFormat(inS, inMsg)
        m == ParsedReply(s.mRpcFormat, inMsg)
    IN
    IF s.mAuthOp # 0 /\ (~IsHandshakeDone(s) \/ m.seq = s.mAuthOp)
    THEN IF m.seq # s.mAuthOp THEN Error(s, "authentication protocol error")
         ELSE IF ~m.parseOk /\ 0 <= m.status
         THEN IF inEnv.crash
              THEN [s EXCEPT !.smFault = "null op dereferenced"]
              ELSE Error(s, "invalid meta server response")
         ELSE HandleAuthResponse(s, [inEnv EXCEPT !.authOk = @ /\ m.status = 0])
    ELSE IF s.mHelloOp # NoHello
    THEN LET r == HelloReply(s, m, inEnv)
         IN  IF r.goOn
             THEN ReplyContent(r.s, [kind |-> "hello", id |-> 0, status |-> m.status],
                               m.content)
             ELSE r.s
    ELSE IF \A e \in s.mDispatchedOps : e[1] # m.seq
    THEN Error(s, "protocol invalid sequence")
    ELSE LET e == CHOOSE x \in s.mDispatchedOps : x[1] = m.seq
         IN  IF ~m.parseOk /\ 0 <= m.status
             THEN Error(s, "meta response parse error")
             ELSE ReplyContent(s, [kind |-> "reply", id |-> e[2], status |-> m.status],
                               m.content)

\* HandleReply / HandleCmd called again for mOp when more bytes have come.
\* The kind of a command is kept until SubmitOp(op): nothing reads it later.
HandleOpInFlight(s, inContent, inEnv) ==
    LET op == s.mOp
        s1 == [s EXCEPT !.mOp = NoOp]
    IN  IF op.kind = "cmd"
        THEN IF inContent = "wait" THEN s
             ELSE IF inContent = "bad"
             THEN Error(DeleteCmd(s1, op.id), "request body parse error")
             ELSE LET s2 == [s1 EXCEPT !.recvCmdExpired = FALSE]
                      hb == s.cmds[op.id].heartbeat /\ s2.mAuthOp = 0
                      a == IF hb /\ inEnv.authenticateFlag
                           THEN Authenticate(s2, inEnv.authRequestErr)
                           ELSE [s |-> s2, started |-> FALSE]
                  IN  IF hb /\ a.started /\ ~IsUp(a.s)
                      THEN DeleteCmd(a.s, op.id)
                      ELSE [a.s EXCEPT
                              !.mMaxPendingOpsCount =
                                  IF hb THEN Max2(1, inEnv.maxPending) ELSE @,
                              !.cmds[op.id].state = "running",
                              !.cmds[op.id].heartbeat = FALSE]
        ELSE ReplyContent(s1, op, inContent)

\* HandleCmd for a command message: mOp is 0.
HandleCmd(s, c, inHeartbeat, inParseOk, inContent, inEnv) ==
    IF ~inParseOk THEN Error(s, "request parse error")
    ELSE HandleOpInFlight(
            [s EXCEPT !.cmds[c] = [generation |-> s.mGenerationCount,
                                   heartbeat |-> inHeartbeat,
                                   state |-> "content"],
                      !.mOp = [kind |-> "cmd", id |-> c, status |-> 0]],
            inContent, inEnv)

\* EVENT_CMD_DONE for a command op.
CmdDone(s, c) ==
    LET s1 == SendResponse(s, c)
    IN  IF s1.mPendingOps # <<>> THEN DispatchOps(s1) ELSE s1

\* The op ids not in use.
FreeOpIds(s) == {id \in OpIds : s.kfsOps[id].state = "free"}

\* SubmitOpResponse(op) where the completion callbacks of the ops of
\* inCallbacks call EnqueueOp with a new op, and EnqueueOp as it runs inside
\* such a callback.
RECURSIVE CompleteCb(_, _, _, _)
RECURSIVE EnqueueOpCb(_, _, _)
CompleteCb(s, id, inStatus, inCallbacks) ==
    LET s1 == SubmitOpResponse(s, id, inStatus)
    IN  IF id \in inCallbacks /\ FreeOpIds(s1) # {}
        THEN LET n == CHOOSE x \in FreeOpIds(s1) : \A y \in FreeOpIds(s1) : x <= y
             IN  EnqueueOpCb([s1 EXCEPT !.kfsOps[n] =
                                 [noReply |-> FALSE, corrupt |-> FALSE,
                                  state |-> "new"]],
                             n, inCallbacks)
        ELSE s1

EnqueueOpCb(s, id, inCallbacks) ==
    IF s.mAuthOp = 0 /\ s.mPendingOps = <<>> /\ IsUp(s) /\
       Cardinality(s.mDispatchedOps) < s.mMaxPendingOpsCount
    THEN LET seq == s.mCmdSeq
             s1 == NextSeq(s)
         IN  IF s.kfsOps[id].noReply
             THEN CompleteCb(s1, id, 0, inCallbacks)
             ELSE [s1 EXCEPT !.mDispatchedOps = @ \cup {<<seq, id>>},
                             !.kfsOps[id].state = "dispatched"]
    ELSE IF s.running /\ s.locationValid
         THEN [s EXCEPT !.mPendingOps = Append(@, id),
                        !.kfsOps[id].state = "pending"]
         ELSE CompleteCb(s, id, -EHOSTUNREACH, inCallbacks)

RECURSIVE FailAllCb(_, _, _)
FailAllCb(s, doneOps, inCallbacks) ==
    IF doneOps = <<>> THEN s
    ELSE FailAllCb(CompleteCb(s, Head(doneOps), -EHOSTUNREACH, inCallbacks),
                   Tail(doneOps), inCallbacks)

\* The loop of FailOps: doneOps is failed, and on shutdown what the
\* callbacks have put into mPendingOps meanwhile is failed in turn.
RECURSIVE FailRounds(_, _, _, _)
FailRounds(s, doneOps, shutdownFlag, inCallbacks) ==
    LET s1 == FailAllCb(s, doneOps, inCallbacks)
    IN  IF ~shutdownFlag \/ s1.mPendingOps = <<>> THEN s1
        ELSE FailRounds([s1 EXCEPT !.mPendingOps = <<>>], s1.mPendingOps,
                        shutdownFlag, inCallbacks)

FailOpsDispatchedOnlyCb(s, shutdownFlag, inCallbacks) ==
    FailRounds([s EXCEPT !.mDispatchedOps = {}],
               DispatchedSeq(s.mDispatchedOps), FALSE, inCallbacks)

\* FailOps with the callbacks of the completions.
FailOpsCb(s, shutdownFlag, inCallbacks) ==
    LET doneOps == DispatchedSeq(s.mDispatchedOps) \o s.mPendingOps
    IN  FailRounds([s EXCEPT !.mDispatchedOps = {}, !.mPendingOps = <<>>],
                   doneOps, shutdownFlag, inCallbacks)

ShutdownEffect(s, inCallbacks) ==
    IF ~s.locationValid /\ s.mNetConnection = "null" THEN s
    ELSE LET s1 == [s EXCEPT !.mGenerationCount = @ + 1,
                             !.mNetConnection = "null",
                             !.locationValid = FALSE]
             s2 == FailOpsCb(DiscardPendingResponses(CleanupOpInFlight(s1)),
                             TRUE, inCallbacks)
         IN  DetachAndDeleteAuthOp(
                DetachAndDeleteHelloOp([s2 EXCEPT !.mSentHello = FALSE]))

\* ------------------------------------------- MetaServerSM.cc, the events
\* What the calls outside the object give when nothing goes wrong;
\* connectDue is mLastConnectTime + 1 < now.
Env0 == [connectDue |-> FALSE, connect |-> "connected", sockName |-> "ok",
         authRequestErr |-> FALSE, lostDirs |-> 0, authOk |-> TRUE,
         corruptNoReply |-> FALSE, crash |-> FALSE, authenticateFlag |-> FALSE,
         maxPending |-> kMaxPendingOpsDefault]

\* A hello op reports as many lost chunk directories as there are ids left
\* for their CorruptChunkOp.
LostDirCounts(s) == 0..Cardinality(FreeCorruptIds(s))

\* What SendHello can meet: a socket name it rejects, a failing
\* authentication request, or a hello op with its lost chunk directories.
HelloEnvs(s) ==
    {[Env0 EXCEPT !.sockName = sn] : sn \in {"error", "invalid"}}
    \cup {[Env0 EXCEPT !.authRequestErr = ae] : ae \in {TRUE} \cap {s.authEnabled}}
    \cup {[Env0 EXCEPT !.lostDirs = n] : n \in LostDirCounts(s)}

\* What Timeout can meet: no connect due yet, a connect that fails, is in
\* progress, or succeeds at once and goes on to SendHello.
ConnectEnvs(s) ==
    {Env0}
    \cup {[Env0 EXCEPT !.connectDue = TRUE, !.connect = c] :
             c \in {"fail", "inprogress"}}
    \cup {[e EXCEPT !.connectDue = TRUE] : e \in HelloEnvs(s)}

\* The timer tick with or without a Reconnect() call since the last one;
\* what a connect meets is drawn where the tick can get to Connect.
TimeoutInputs(s) ==
    {[reconnect |-> TRUE, env |-> e] : e \in ConnectEnvs(s)}
    \cup {[reconnect |-> FALSE, env |-> e] :
             e \in IF ~IsConnected(s) \/ (IsHandshakeDone(s) /\ s.recvCmdExpired)
                   THEN ConnectEnvs(s) ELSE {Env0}}

\* A network error or an inactivity timeout; an authentication response
\* may be waiting in the buffer when the peer closes the connection.
NetErrorInputs(s) ==
    {[inactivity |-> TRUE, env |-> Env0]}
    \cup {[inactivity |-> FALSE,
           env |-> [Env0 EXCEPT !.authOk = ok, !.lostDirs = n]] :
             ok \in {TRUE, s.mAuthOp = 0}, n \in {0} \cup
                 (IF s.mAuthOp = 0 THEN {} ELSE LostDirCounts(s))}

\* A heartbeat: its maxPendingOps and authenticateFlag.
WindowSizes == {0, kMaxPendingOpsDefault}
HeartbeatEnvs(s) ==
    {[Env0 EXCEPT !.maxPending = w] : w \in WindowSizes}
    \cup {[Env0 EXCEPT !.maxPending = w, !.authenticateFlag = TRUE,
                       !.authRequestErr = ae] :
             w \in WindowSizes, ae \in {FALSE, s.authEnabled}}

\* The commands the server can send: unparsable, a heartbeat, or another
\* command with or without content.
CmdInputs(s) ==
    {[heartbeat |-> FALSE, parseOk |-> FALSE, content |-> "none", env |-> Env0]}
    \cup {[heartbeat |-> FALSE, parseOk |-> TRUE, content |-> ct, env |-> Env0] :
             ct \in {"none", "wait", "ok", "bad"}}
    \cup {[heartbeat |-> TRUE, parseOk |-> TRUE, content |-> "wait",
           env |-> Env0]}
    \cup {[heartbeat |-> TRUE, parseOk |-> TRUE, content |-> "none", env |-> e] :
             e \in HeartbeatEnvs(s)}

\* The rest of the content of mOp: complete and well formed, or not.
ContentInputs(s) ==
    {[content |-> "bad", env |-> Env0]}
    \cup {[content |-> "ok", env |-> e] :
             e \in IF s.mOp.kind = "cmd" /\ s.cmds[s.mOp.id].heartbeat
                   THEN HeartbeatEnvs(s) ELSE {Env0}}

Msg(q, st, r, ct, p, w) ==
    [seq |-> q, status |-> st, resume |-> r, content |-> ct, parseOk |-> p,
     maxPending |-> w, hasCseq |-> TRUE, hasC |-> FALSE]
Contents == {"none", "wait", "ok", "bad"}

\* The replies the server can send while the auth op is in flight: with
\* another sequence number (0), unparsable, refused, or accepted.
AuthReplies(s) ==
    {[m |-> Msg(0, 0, -1, "none", TRUE, 0), env |-> Env0],
     [m |-> Msg(s.mAuthOp, -EIO, -1, "none", TRUE, 0), env |-> Env0],
     [m |-> Msg(s.mAuthOp, 0, -1, "ok", TRUE, 0),
      env |-> [Env0 EXCEPT !.authOk = FALSE]]}
    \cup {[m |-> Msg(s.mAuthOp, 0, -1, "none", FALSE, 0),
           env |-> [Env0 EXCEPT !.crash = c]] : c \in BOOLEAN}
    \cup {[m |-> Msg(s.mAuthOp, 0, -1, "ok", TRUE, 0),
           env |-> [Env0 EXCEPT !.lostDirs = n]] : n \in LostDirCounts(s)}

\* The replies the server can send while the hello op exists.
HelloReplies(s) ==
    {[m |-> Msg(0, 0, s.mHelloOp.resumeStep, "none", TRUE, 0), env |-> Env0]}
    \cup {[m |-> Msg(s.mHelloOp.seq, st, -1, ct, TRUE, 0), env |-> Env0] :
             st \in {-EAGAIN, -EIO, -EBADCLUSTERKEY}, ct \in {"none", "ok"}}
    \cup {[m |-> Msg(s.mHelloOp.seq, 0, r, ct, TRUE, w),
           env |-> [Env0 EXCEPT !.corruptNoReply = nr]] :
             r \in {-1, 0, 1}, ct \in Contents, w \in WindowSizes,
             nr \in {FALSE, 0 < s.mHelloOp.lostChunkDirs}}

\* The replies the server can send for the ops of mDispatchedOps, or with a
\* sequence number (0) that none of them has.
OpReplies(s) ==
    {[m |-> Msg(q, st, -1, ct, p, 0), env |-> Env0] :
        q \in {0} \cup {e[1] : e \in s.mDispatchedOps}, st \in {0, -EIO},
        ct \in Contents, p \in BOOLEAN}

Replies(s) ==
    IF s.mAuthOp # 0 /\ ~IsHandshakeDone(s) THEN AuthReplies(s)
    ELSE (IF s.mAuthOp # 0 THEN AuthReplies(s) ELSE {})
         \cup (IF s.mHelloOp # NoHello THEN HelloReplies(s) ELSE OpReplies(s))

\* The event loop runs and the process has not died.
EventLoop == gMetaServerSM.smFault = "none" /\ gMetaServerSM.running

\* A handler starts with nothing written by it.
Begin ==
    [gMetaServerSM EXCEPT !.written = {}, !.discarded = {},
                          !.connectedTimeSet = FALSE, !.connectCalled = FALSE]

\* die() and a crash end the process: nothing of the object is left.
Crashed(inFault) == [SmInit EXCEPT !.smFault = inFault, !.running = FALSE]

\* The handler leaves the object as s; generations and sequence numbers stay
\* within the budget.
SmStep(s) ==
    /\ s.mGenerationCount <= MaxGen
    /\ s.mCmdSeq <= MaxCmdSeq
    /\ gMetaServerSM' = IF s.smFault = "none" THEN s ELSE Crashed(s.smFault)
    /\ UNCHANGED <<storeVars, shutIdx, rdVars>>

\* SetParameters before the connection is made: the authentication context.
SmSetParameters(inAuthEnabled) ==
    /\ EventLoop
    /\ gMetaServerSM.mNetConnection = "null"
    /\ SmStep([Begin EXCEPT !.authEnabled = inAuthEnabled])

\* Time passes: the times compared with now may fall behind.
Elapse(inRecvCmdExpired) ==
    /\ EventLoop
    /\ SmStep([Begin EXCEPT !.recvCmdExpired = @ \/ inRecvCmdExpired])

\* Reconnect() sets mReconnectFlag, which only Timeout reads.
Reconnect(s) == [s EXCEPT !.mReconnectFlag = TRUE]

\* The timer tick; x.reconnect: Reconnect() was called since the last tick.
SmTimeout(x) ==
    /\ EventLoop
    /\ gMetaServerSM.locationValid
    /\ SmStep(TimeoutEffect(IF x.reconnect THEN Reconnect(Begin) ELSE Begin,
                            x.env))

\* EVENT_NET_WROTE: the connect has finished, or bytes went out.
NetWrote(inEnv) ==
    /\ EventLoop
    /\ IsConnected(gMetaServerSM)
    /\ LET s == [Begin EXCEPT !.mNetConnection = "good"]
       IN  SmStep(IF s.mAuthOp = 0 /\ ~s.mSentHello /\ s.mHelloOp = NoHello
                  THEN SendHello(s, inEnv) ELSE s)

\* EVENT_CMD_DONE for the hello op: SubmitOp has executed it.
HelloDone ==
    /\ EventLoop
    /\ gMetaServerSM.helloRunning
    /\ SmStep(DispatchHello([Begin EXCEPT !.helloRunning = FALSE]))

\* EVENT_CMD_DONE for a hello op that was deleted while SubmitOp ran it:
\* the handler works on freed memory.
StaleHelloDone(inCrash) ==
    /\ EventLoop
    /\ gMetaServerSM.staleHello
    /\ SmStep([Begin EXCEPT
                  !.staleHello = FALSE,
                  !.smFault = IF inCrash THEN "use after free" ELSE @])

\* The bytes of the server reach the handler once the socket is connected.
Readable == gMetaServerSM.mNetConnection = "good"

\* EVENT_NET_READ with a reply as the next message.
NetReadReply(x) ==
    /\ EventLoop /\ Readable
    /\ gMetaServerSM.mOp = NoOp
    /\ SmStep(HandleReply(Begin, x.m, x.env))

\* EVENT_NET_READ with the rest of the content of mOp.
NetReadContent(x) ==
    /\ EventLoop /\ Readable
    /\ gMetaServerSM.mOp # NoOp
    /\ SmStep(HandleOpInFlight(Begin, x.content, x.env))

\* EVENT_NET_READ with a command as the next message; the op takes the
\* first free slot.
NetReadCmd(c, x) ==
    /\ EventLoop /\ Readable
    /\ gMetaServerSM.mOp = NoOp
    /\ gMetaServerSM.cmds[c] = NoCmd
    /\ \A d \in CmdIds : d < c => gMetaServerSM.cmds[d] # NoCmd
    /\ SmStep(HandleCmd(Begin, c, x.heartbeat, x.parseOk, x.content, x.env))

\* EVENT_CMD_DONE for a command op.
CmdDoneEvent(c) ==
    /\ EventLoop
    /\ gMetaServerSM.cmds[c].state = "running"
    /\ SmStep(CmdDone(Begin, c))

\* EVENT_NET_ERROR and EVENT_INACTIVITY_TIMEOUT.
NetError(x) ==
    /\ EventLoop
    /\ IsConnected(gMetaServerSM)
    /\ LET s == Begin
       IN  SmStep(IF ~x.inactivity /\ s.mAuthOp # 0 /\ s.mOp = NoOp /\ IsUp(s)
                  THEN HandleAuthResponse(s, x.env)
                  ELSE Error(s, IF x.inactivity THEN "inactivity timeout"
                                ELSE "network error"))

\* EnqueueOp(op) with a new op of the upper layer; the op takes the first
\* free id.
EnqueueOpEvent(id, inNoReply) ==
    /\ gMetaServerSM.smFault = "none"
    /\ gMetaServerSM.kfsOps[id].state = "free"
    /\ \A d \in 1..MaxSmOps : d < id => gMetaServerSM.kfsOps[d].state # "free"
    /\ SmStep(EnqueueOp([Begin EXCEPT
                            !.kfsOps[id] = [noReply |-> inNoReply,
                                            corrupt |-> FALSE, state |-> "new"]],
                        id))

\* Shutdown(); inCallbacks: the ops whose completion enqueues a new op.
SmShutdown(inCallbacks) ==
    /\ gMetaServerSM.smFault = "none"
    /\ gMetaServerSM.locationValid \/ gMetaServerSM.mNetConnection # "null"
    /\ SmStep(ShutdownEffect(Begin, inCallbacks))

SmNext ==
    \/ \E a \in BOOLEAN : SmSetParameters(a)
    \/ \E r \in BOOLEAN : Elapse(r)
    \/ \E x \in TimeoutInputs(gMetaServerSM) : SmTimeout(x)
    \/ \E e \in HelloEnvs(gMetaServerSM) : NetWrote(e)
    \/ HelloDone
    \/ \E c \in BOOLEAN : StaleHelloDone(c)
    \/ \E x \in Replies(gMetaServerSM) : NetReadReply(x)
    \/ \E x \in ContentInputs(gMetaServerSM) : NetReadContent(x)
    \/ \E c \in 1..MaxCmds, x \in CmdInputs(gMetaServerSM) : NetReadCmd(c, x)
    \/ \E c \in 1..MaxCmds : CmdDoneEvent(c)
    \/ \E x \in NetErrorInputs(gMetaServerSM) : NetError(x)
    \/ \E id \in 1..MaxSmOps, nr \in BOOLEAN : EnqueueOpEvent(id, nr)
    \/ \E cb \in SUBSET OpIds : SmShutdown(cb)

SmSpec == Init /\ [][SmNext]_vars

\* ------------------------------------------------- MetaServerSM, the claims
\* C15: no op completes twice: SubmitOpResponse is called at most once for
\* every op given to EnqueueOp, whichever path completes it.
C15_NoOpCompletesTwice ==
    \A id \in OpIds : Len(gMetaServerSM.completions[id]) <= 1

\* An op completed by its reply and an op failed by a disconnect, after the
\* disconnect.
C15_Witness ==
    /\ gMetaServerSM.mNetConnection = "closed"
    /\ \E id \in OpIds : gMetaServerSM.completions[id] = <<0>>
    /\ \E id \in OpIds : gMetaServerSM.completions[id] = <<-EHOSTUNREACH>>

\* The sequence numbers a reply can carry that are neither a key of
\* mDispatchedOps nor the sequence number of the auth op.
UnmatchedSeqs(s) ==
    {q \in 0..MaxCmdSeq :
        /\ s.mAuthOp # 0 => q # s.mAuthOp
        /\ \A e \in s.mDispatchedOps : e[1] # q}

\* The handshake is done and the next message of the server is read.
ReplyAfterHandshake(s) ==
    /\ EventLoop /\ Readable
    /\ s.mOp = NoOp
    /\ IsHandshakeDone(s)

\* C16: after the handshake, a reply whose sequence number is no key of
\* mDispatchedOps and not the auth op's is not dropped: HandleReply does what
\* Error("protocol invalid sequence") does, which closes the connection, and
\* no op is completed with the status of that reply.
C16_UnmatchedReplyIsError ==
    LET s == Begin
    IN  ReplyAfterHandshake(s) =>
            \A q \in UnmatchedSeqs(s), st \in {0, -EIO}, ct \in Contents,
               p \in BOOLEAN :
                LET r == HandleReply(s, Msg(q, st, -1, ct, p, 0), Env0)
                IN  /\ r = Error(s, "protocol invalid sequence")
                    /\ r.mNetConnection = "closed"
                    /\ r.mGenerationCount = s.mGenerationCount + 1
                    /\ \A id \in OpIds :
                          r.completions[id] \in
                              {s.completions[id],
                               Append(s.completions[id], -EHOSTUNREACH)}

\* A reply with an unmatched sequence number arrives while an op waits for
\* its reply: the connection is closed and that op fails.
C16_Witness ==
    LET s == Begin
        r == HandleReply(s, Msg(s.mCmdSeq, 0, -1, "none", TRUE, 0), Env0)
    IN  /\ ReplyAfterHandshake(s)
        /\ s.mCmdSeq \in UnmatchedSeqs(s)
        /\ s.mGenerationCount < MaxGen
        /\ r.mNetConnection = "closed"
        /\ \E e \in s.mDispatchedOps :
              /\ s.completions[e[2]] = <<>>
              /\ r.completions[e[2]] = <<-EHOSTUNREACH>>

\* The ops of mPendingOps and mDispatchedOps.
QueuedOps(s) ==
    {s.mPendingOps[i] : i \in DOMAIN s.mPendingOps}
    \cup {e[2] : e \in s.mDispatchedOps}

\* What Error leaves behind, t, when it ran in state s.
AfterError(s, t) ==
    /\ t.mNetConnection = "closed"
    /\ t.mGenerationCount > s.mGenerationCount
    /\ t.mAuthOp = 0
    /\ t.mHelloOp = NoHello
    /\ ~t.mSentHello
    /\ t.mDispatchedOps = {}
    /\ \A id \in QueuedOps(s) :
          t.completions[id] = Append(s.completions[id], -EHOSTUNREACH)

C18_NoStaleResponseWritten ==
    \A r \in gMetaServerSM.written : r.accepted = r.at

\* A command accepted before a disconnect is done after a new connection
\* finished its handshake, and SendResponse dropped its response.
C18_Witness ==
    /\ IsUp(gMetaServerSM)
    /\ gMetaServerSM.written = {}
    /\ \E r \in gMetaServerSM.discarded : r.accepted < r.at

\* C19 as stated: mDispatchedOps never holds more ops than
\* mMaxPendingOpsCount.
C19_WindowBound ==
    Cardinality(gMetaServerSM.mDispatchedOps) <= gMetaServerSM.mMaxPendingOpsCount

\* C19 amended: a handler that inserts an op into mDispatchedOps leaves no
\* more than mMaxPendingOpsCount ops in it.
C19_InsertWithinWindow ==
    [][gMetaServerSM'.mDispatchedOps \ gMetaServerSM.mDispatchedOps # {}
          => Cardinality(gMetaServerSM'.mDispatchedOps)
                <= gMetaServerSM'.mMaxPendingOpsCount]_vars

\* The window of 1 is full and an op waits in mPendingOps.
C19_Witness ==
    /\ IsUp(gMetaServerSM)
    /\ gMetaServerSM.mMaxPendingOpsCount = 1
    /\ Cardinality(gMetaServerSM.mDispatchedOps) = 1
    /\ gMetaServerSM.mPendingOps # <<>>

\* No connection and no handshake under way, the event loop running.
Disconnected(s) ==
    /\ s.smFault = "none" /\ s.running /\ s.locationValid
    /\ ~IsConnected(s)
    /\ s.mHelloOp = NoHello

\* The hello op has been executed: EVENT_CMD_DONE sends it.
HelloExecuted(s) == DispatchHello([s EXCEPT !.helloRunning = FALSE])

\* The handshake from state s: Timeout connects at once, the server accepts
\* the authentication if there is one, answers the hello op of step 0 with
\* status 0 and Resume 0, and the hello op of step 1 with status 0 and Resume
\* inResume; the hello op has inLostDirs lost chunk directories.
Handshake(s, inLostDirs, inMaxPending, inResume) ==
    LET env == [Env0 EXCEPT !.connectDue = TRUE, !.lostDirs = inLostDirs]
        s1 == TimeoutEffect(s, env)
        s2 == IF s1.mAuthOp # 0
              THEN HandleReply(s1, Msg(s1.mAuthOp, 0, -1, "ok", TRUE, 0), env)
              ELSE s1
        s3 == HelloExecuted(s2)
        s4 == HandleReply(s3, Msg(s3.mHelloOp.seq, 0, 0, "none", TRUE,
                                  inMaxPending), Env0)
        s5 == HelloExecuted(s4)
    IN  HandleReply(s5, Msg(s5.mHelloOp.seq, 0, inResume, "none", TRUE,
                            inMaxPending), Env0)

\* The handshake that began in s is done in t: mConnectedTime is set and
\* every lost chunk directory has its CorruptChunkOp.
HandshakeDoneWith(s, t, inLostDirs) ==
    /\ t.smFault = "none"
    /\ IsConnected(t)
    /\ t.mSentHello /\ t.mHelloOp = NoHello
    /\ t.connectedTimeSet
    /\ Cardinality(FreeCorruptIds(s)) - Cardinality(FreeCorruptIds(t))
          = inLostDirs

\* C20 as stated: from a disconnected state, connect, successful
\* authentication if enabled, HELLO step 0 answered with status 0 and Resume
\* 0, and HELLO step 1 answered with status 0 end with the handshake done.
C20_CleanHandshake ==
    Disconnected(Begin) =>
        \A n \in LostDirCounts(Begin), w \in WindowSizes, r \in {-1, 0, 1} :
            HandshakeDoneWith(Begin, Handshake(Begin, n, w, r), n)

\* C20 amended: the same when the answer to HELLO step 1 carries Resume 1
\* and no content.
C20_CleanHandshakeResume1 ==
    Disconnected(Begin) =>
        \A n \in LostDirCounts(Begin), w \in WindowSizes :
            HandshakeDoneWith(Begin, Handshake(Begin, n, w, 1), n)

\* The last reply of a handshake has just been handled: the handshake is
\* done, mConnectedTime is set, and a CorruptChunkOp has been enqueued.
C20_Witness ==
    /\ IsUp(gMetaServerSM)
    /\ gMetaServerSM.connectedTimeSet
    /\ gMetaServerSM.smFault = "none"
    /\ \E id \in CorruptIds : gMetaServerSM.kfsOps[id].state # "free"

\* The next message of the server is read while the hello op waits for its
\* reply.
HelloReplyDue(s) ==
    /\ EventLoop /\ Readable
    /\ s.mOp = NoOp
    /\ s.mAuthOp = 0
    /\ s.mHelloOp # NoHello

\* globalNetManager().Shutdown() has been called and the process lives.
Stopped(s) == ~s.running /\ s.smFault = "none"

\* From s to t no hello op was submitted and no connection was started.
NoRetry(s, t) ==
    /\ t.mHelloOp \in {s.mHelloOp, NoHello}
    /\ t.helloRunning => s.helloRunning
    /\ t.mCmdSeq = s.mCmdSeq
    /\ IsConnected(t) =>
          IsConnected(s) /\ t.mGenerationCount = s.mGenerationCount

MaxClock == 2
ClockTimes == 0..MaxClock

\* The timer ticks on a connection that is up, with no command received
\* within the inactivity timeout and no Reconnect() call.
InactiveTick(s) ==
    /\ EventLoop
    /\ s.locationValid
    /\ IsUp(s)
    /\ s.recvCmdExpired

ShutdownRan(s, t) == s.locationValid /\ ~t.locationValid /\ t.smFault = "none"

\* C25: when Shutdown returns, mPendingOps and mDispatchedOps are empty,
\* every op that was in either has been completed with -EHOSTUNREACH, and so
\* has every op that a completion callback enqueued meanwhile: no op is
\* left new, pending or dispatched.
C25_ShutdownFailsAllOps ==
    [][ShutdownRan(gMetaServerSM, gMetaServerSM') =>
          /\ gMetaServerSM'.mPendingOps = <<>>
          /\ gMetaServerSM'.mDispatchedOps = {}
          /\ \A id \in QueuedOps(gMetaServerSM) :
                gMetaServerSM'.completions[id] =
                    Append(gMetaServerSM.completions[id], -EHOSTUNREACH)
          /\ \A id \in FreeOpIds(gMetaServerSM) \ FreeOpIds(gMetaServerSM') :
                gMetaServerSM'.completions[id] = <<-EHOSTUNREACH>>
          /\ \A id \in OpIds :
                gMetaServerSM'.kfsOps[id].state \in {"free", "done"}]_vars

\* Shutdown has failed an op of the upper layer and the op that its
\* completion callback enqueued.
C25_Witness ==
    /\ ~gMetaServerSM.locationValid
    /\ gMetaServerSM.mNetConnection = "null"
    /\ \A id \in OpIds : gMetaServerSM.completions[id] = <<-EHOSTUNREACH>>
    /\ \E id \in CorruptIds :
          /\ ~gMetaServerSM.kfsOps[id].corrupt
          /\ gMetaServerSM.kfsOps[id].state = "done"

\* The nonzero statuses of the replies to the hello op.
HelloErrorStatuses == {-EAGAIN, -EIO, -EBADCLUSTERKEY}

\* The hello op of s was submitted again with a fresh sequence number, on
\* the connection of s.
HelloResubmitted(s, t) ==
    /\ t.mNetConnection = s.mNetConnection
    /\ t.mGenerationCount = s.mGenerationCount
    /\ t.mHelloOp # NoHello /\ t.helloRunning /\ ~t.mSentHello
    /\ t.mHelloOp.seq = s.mCmdSeq /\ t.mHelloOp.seq # s.mHelloOp.seq
    /\ t.mCmdSeq = s.mCmdSeq + 1
    /\ t.running = s.running /\ t.smFault = s.smFault

\* The connection of s was closed through Error.
ClosedThroughError(s, t) ==
    /\ t = Error(s, "handshake error")
    /\ t.mNetConnection = "closed"
    /\ t.mGenerationCount = s.mGenerationCount + 1
    /\ t.mHelloOp = NoHello

\* The reply with the hello op's sequence number, the status and content.
HelloStatusReply(s, inStatus, inContent) ==
    HandleReply(s, Msg(s.mHelloOp.seq, inStatus, -1, inContent, TRUE, 0), Env0)

\* The hello op is resumable and -EAGAIN without content re-submits it.
EagainResubmits(s) ==
    (HelloReplyDue(s) /\ 0 <= s.mHelloOp.resumeStep) =>
        HelloResubmitted(s, HelloStatusReply(s, -EAGAIN, "none"))

NewlyOnWire(s, t, id) ==
    \/ s.kfsOps[id].state # "dispatched" /\ t.kfsOps[id].state = "dispatched"
    \/ /\ t.kfsOps[id].noReply /\ s.kfsOps[id].state \notin {"dispatched", "done"}
       /\ t.kfsOps[id].state = "done"
       /\ t.completions[id] = Append(s.completions[id], 0)

\* Authentication is in flight or the connection is not up.
NotDispatching(s) == ~IsUp(s) \/ s.mAuthOp # 0

\* EnqueueOp(op) with a new op in the slot id.
EnqueueNew(s, id, inNoReply) ==
    EnqueueOp([s EXCEPT !.kfsOps[id] = [noReply |-> inNoReply, corrupt |-> FALSE,
                                        state |-> "new"]], id)

\* C33: while an authentication op is in flight or the connection is not up,
\* EnqueueOp and DispatchOps give no op a sequence number, put none into
\* mDispatchedOps and write none: the op of EnqueueOp goes to mPendingOps or
\* is failed with -EHOSTUNREACH, DispatchOps does nothing; and every step
\* that puts an op on the wire ends up and without an auth op.
C33_NoDispatchUnlessUp ==
    /\ [](LET s == Begin
          IN  NotDispatching(s) =>
                /\ DispatchOps(s) = s
                /\ \A id \in FreeOpIds(s), nr \in BOOLEAN :
                      LET t == EnqueueNew(s, id, nr)
                      IN  /\ t.mCmdSeq = s.mCmdSeq
                          /\ t.mDispatchedOps = s.mDispatchedOps
                          /\ \/ /\ t.kfsOps[id].state = "pending"
                                /\ t.mPendingOps = Append(s.mPendingOps, id)
                             \/ /\ t.kfsOps[id].state = "done"
                                /\ t.completions[id] = <<-EHOSTUNREACH>>)
    /\ [][\A id \in OpIds :
            NewlyOnWire(gMetaServerSM, gMetaServerSM', id) =>
                IsUp(gMetaServerSM') /\ gMetaServerSM'.mAuthOp = 0]_vars

\* An op waits in mPendingOps while the connection is up and the
\* authentication is done again.
C33_Witness ==
    /\ IsUp(gMetaServerSM) /\ gMetaServerSM.mAuthOp # 0
    /\ gMetaServerSM.mPendingOps # <<>>
    /\ gMetaServerSM.smFault = "none"

\* The ops of a queue and the place of an op in it.
PendingSet(q) == {q[i] : i \in 1..Len(q)}
PendingPos(q, id) == CHOOSE i \in 1..Len(q) : q[i] = id

\* The ops of q that are still in r are in r in the same order, ahead of
\* every op that was not in q.
FifoKept(q, r) ==
    \A i \in 1..Len(r), j \in 1..Len(r) :
        (i < j /\ r[j] \in PendingSet(q)) =>
            /\ r[i] \in PendingSet(q)
            /\ PendingPos(q, r[i]) < PendingPos(q, r[j])

\* C32: ops go out in the order of their submission: in no step is an op
\* put on the wire while an op that was in mPendingOps before it (ahead of
\* it in mPendingOps, or in mPendingOps when it was submitted) still waits
\* there, and mPendingOps keeps the order of submission.
C32_SentInSubmissionOrder ==
    [][LET s == gMetaServerSM
           t == gMetaServerSM'
       IN  /\ FifoKept(s.mPendingOps, t.mPendingOps)
           /\ \A id \in OpIds :
                 NewlyOnWire(s, t, id) =>
                   \A j \in PendingSet(s.mPendingOps) \cap PendingSet(t.mPendingOps) :
                       /\ id \in PendingSet(s.mPendingOps)
                       /\ PendingPos(s.mPendingOps, id) < PendingPos(s.mPendingOps, j)]_vars

\* The first of two waiting ops went out and the second still waits: the
\* window is full.
C32_Witness ==
    /\ IsUp(gMetaServerSM)
    /\ \E a \in OpIds, b \in OpIds :
          /\ a # b
          /\ gMetaServerSM.kfsOps[a].state = "dispatched"
          /\ gMetaServerSM.mPendingOps = <<b>>
          /\ ~gMetaServerSM.kfsOps[a].corrupt /\ gMetaServerSM.kfsOps[b].corrupt

\* C39: before the handshake is done no authentication op and hello op are
\* in flight together, and die("hello op in flight prior to authentication
\* completion") is not reached.
C39_NoAuthWithHello ==
    /\ ~(/\ gMetaServerSM.mAuthOp # 0 /\ gMetaServerSM.mHelloOp # NoHello
         /\ ~IsHandshakeDone(gMetaServerSM))
    /\ gMetaServerSM.smFault #
          "die: hello op in flight prior to authentication completion"

\* C40: the hello op is not deleted between SubmitOp(mHelloOp) and its
\* EVENT_CMD_DONE: no step deletes a hello op that is being executed, and no
\* EVENT_CMD_DONE is owed for a deleted hello op.
C40_HelloOpOutlivesSubmit ==
    /\ [](~gMetaServerSM.staleHello)
    /\ [][(gMetaServerSM.helloRunning /\ gMetaServerSM'.smFault = "none")
            => gMetaServerSM'.mHelloOp # NoHello]_vars

\* The last handler has completed the handshake (mConnectedTime = now) and
\* the timer ticks next, within the same second, without a Reconnect() call.
TickAfterHandshake(s) ==
    /\ EventLoop
    /\ s.locationValid
    /\ s.connectedTimeSet
    /\ IsUp(s)
    /\ ~s.mReconnectFlag

\* C38: the heartbeat timeout does not fire before inactivityTimeout seconds
\* have passed since the later of the handshake's completion and the last
\* command received: a tick in the second in which the handshake was
\* completed leaves the connection open, whether or not a command was ever
\* received.
C38_NoEarlyHeartbeatTimeout ==
    LET s == gMetaServerSM
    IN  TickAfterHandshake(s) =>
            \A x \in TimeoutInputs(s) :
                ~x.reconnect =>
                    LET r == TimeoutEffect(Begin, x.env)
                    IN  /\ IsConnected(r)
                        /\ r.mGenerationCount = s.mGenerationCount

\* ------------------------------- MetaServerSM, responses behind the auth
\* The order of responses is looked at on the first connection and what
\* follows its loss, with MaxAuthCmds commands in execution and without
\* CorruptChunkOp notifications.
MaxAuthGen == 3
AuthBudget ==
    /\ gMetaServerSM.mGenerationCount <= MaxAuthGen
    /\ FreeCorruptIds(gMetaServerSM) = CorruptIds

AuthNext ==
    \/ \E a \in BOOLEAN : SmSetParameters(a) /\ AuthBudget'
    \/ \E r \in BOOLEAN : Elapse(r) /\ AuthBudget'
    \/ \E x \in TimeoutInputs(gMetaServerSM) : SmTimeout(x) /\ AuthBudget'
    \/ \E e \in HelloEnvs(gMetaServerSM) : NetWrote(e) /\ AuthBudget'
    \/ HelloDone /\ AuthBudget'
    \/ \E c \in BOOLEAN : StaleHelloDone(c) /\ AuthBudget'
    \/ \E x \in Replies(gMetaServerSM) : NetReadReply(x) /\ AuthBudget'
    \/ \E x \in ContentInputs(gMetaServerSM) : NetReadContent(x) /\ AuthBudget'
    \/ \E c \in CmdIds, x \in CmdInputs(gMetaServerSM) :
          NetReadCmd(c, x) /\ AuthBudget'
    \/ \E c \in CmdIds : CmdDoneEvent(c) /\ AuthBudget'
    \/ \E x \in NetErrorInputs(gMetaServerSM) : NetError(x) /\ AuthBudget'
    \/ \E id \in 1..MaxSmOps, nr \in BOOLEAN :
          EnqueueOpEvent(id, nr) /\ AuthBudget'
    \/ SmShutdown({}) /\ AuthBudget'

AuthSpec == Init /\ [][AuthNext]_vars

\* An authentication op is in flight on a connection whose handshake is
\* done.
AuthInFlightUp(s) == s.mAuthOp # 0 /\ IsUp(s)

\* The responses a handler writes when it writes those of q in their order,
\* at generation g.
WrittenInOrder(q, g) ==
    {[accepted |-> g, at |-> g, cmd |-> q[i], pos |-> i] : i \in DOMAIN q}

\* C23: responses wait in mPendingResponses only while an auth op is in
\* flight.  With the auth op in flight on an established connection, the
\* completion of a command accepted at the current generation appends its
\* response to mPendingResponses and writes nothing; the successful
\* authentication reply takes the auth op away, writes the queued responses
\* in the order of the queue and leaves the queue empty, so that a response
\* completed later is written after them.
C23_ResponsesQueuedBehindAuth ==
    LET s == Begin
    IN  /\ s.mAuthOp = 0 => s.mPendingResponses = <<>>
        /\ (EventLoop /\ AuthInFlightUp(s)) =>
              \A c \in CmdIds :
                 (/\ s.cmds[c].state = "running"
                  /\ s.cmds[c].generation = s.mGenerationCount) =>
                     LET r == CmdDone(s, c)
                     IN  /\ r.mPendingResponses = Append(s.mPendingResponses, c)
                         /\ r.cmds[c].state = "pendingResponse"
                         /\ r.written = {}
                         /\ r.discarded = {}
        /\ (EventLoop /\ Readable /\ s.mOp = NoOp /\ AuthInFlightUp(s)) =>
              LET r == HandleReply(s, Msg(s.mAuthOp, 0, -1, "ok", TRUE, 0), Env0)
              IN  /\ r.mAuthOp = 0
                  /\ r.mPendingResponses = <<>>
                  /\ r.discarded = {}
                  /\ r.written =
                        WrittenInOrder(s.mPendingResponses, s.mGenerationCount)

\* Two responses wait behind the authentication, the second command's
\* first, and the authentication reply writes both in that order.
C23_Witness ==
    LET s == Begin
        r == HandleReply(s, Msg(s.mAuthOp, 0, -1, "ok", TRUE, 0), Env0)
    IN  /\ EventLoop /\ Readable /\ s.mOp = NoOp /\ AuthInFlightUp(s)
        /\ s.mPendingResponses = <<2, 1>>
        /\ r.mPendingResponses = <<>>
        /\ Cardinality(r.written) = 2
        /\ \E w \in r.written : w.cmd = 2 /\ w.pos = 1

\* --------------------------------------- MetaServerSM, the connect clock
\* The clock of the event loop is followed up to MaxConnectClock seconds,
\* on a connection without authentication, commands and ops.
MaxConnectClock == 5

\* The clock moves on by one second.
ClockAdvance ==
    /\ gMetaServerSM.smFault = "none"
    /\ gMetaServerSM.now < MaxConnectClock
    /\ SmStep([Begin EXCEPT !.now = @ + 1])

\* The timer tick at the time of the clock: Connect is due by the test on
\* mLastConnectTime, and a tick that calls Connect has set mLastConnectTime
\* to now.
ClockTimeout(x) ==
    /\ EventLoop
    /\ gMetaServerSM.locationValid
    /\ LET s == IF x.reconnect THEN Reconnect(Begin) ELSE Begin
           r == TimeoutEffect(
                    s, [x.env EXCEPT !.connectDue =
                                        ConnectDue(s.mLastConnectTime, s.now)])
       IN  SmStep(IF r.connectCalled
                  THEN [r EXCEPT !.mLastConnectTime = s.now,
                                 !.connectTimes = Append(@, s.now)]
                  ELSE r)

ClockNext ==
    \/ ClockAdvance
    \/ \E r \in BOOLEAN : Elapse(r)
    \/ \E x \in TimeoutInputs(gMetaServerSM) : ClockTimeout(x)
    \/ \E e \in HelloEnvs(gMetaServerSM) : NetWrote(e)
    \/ HelloDone
    \/ \E c \in BOOLEAN : StaleHelloDone(c)
    \/ \E x \in Replies(gMetaServerSM) : NetReadReply(x)
    \/ \E x \in ContentInputs(gMetaServerSM) : NetReadContent(x)
    \/ \E x \in NetErrorInputs(gMetaServerSM) : NetError(x)

ClockSpec == Init /\ [][ClockNext]_vars

\* C24: any two successive Connect calls of the timer tick are more than
\* one second of the event-loop clock apart.
C24_ConnectThrottled ==
    LET t == gMetaServerSM.connectTimes
    IN  \A i \in 1..(Len(t) - 1) : t[i + 1] > t[i] + 1

\* The tick has called Connect twice, the second time after an error closed
\* the first connection.
C24_Witness ==
    /\ Len(gMetaServerSM.connectTimes) = 2
    /\ gMetaServerSM.connectCalled
    /\ IsConnected(gMetaServerSM)

\* ------------------------------------------------ MetaServerSM, liveness
\* The timer tick of the event loop, with no Reconnect() call and no
\* connect due.
Tick == SmTimeout([reconnect |-> FALSE, env |-> Env0])

\* What the event loop guarantees: the timer ticks, the clock moves on, and
\* every op handed to SubmitOp calls back with EVENT_CMD_DONE.  What the
\* server sends, and when, is not up to the program.
SmFairness ==
    /\ WF_vars(Tick)
    /\ WF_vars(Elapse(TRUE))
    /\ WF_vars(HelloDone)
    /\ WF_vars(\E c \in BOOLEAN : StaleHelloDone(c))
    /\ WF_vars(\E c \in 1..MaxCmds : CmdDoneEvent(c))

\* Liveness is checked for the first connection and what follows its loss,
\* without authentication and without CorruptChunkOp notifications.
MaxLiveGen == 3
MaxLiveSeq == 4
LiveBudget ==
    /\ gMetaServerSM.mGenerationCount <= MaxLiveGen
    /\ gMetaServerSM.mCmdSeq <= MaxLiveSeq
    /\ ~gMetaServerSM.authEnabled
    /\ FreeCorruptIds(gMetaServerSM) = CorruptIds

SmLiveNext ==
    \/ \E a \in BOOLEAN : SmSetParameters(a) /\ LiveBudget'
    \/ \E r \in BOOLEAN : Elapse(r) /\ LiveBudget'
    \/ \E x \in TimeoutInputs(gMetaServerSM) : SmTimeout(x) /\ LiveBudget'
    \/ \E e \in HelloEnvs(gMetaServerSM) : NetWrote(e) /\ LiveBudget'
    \/ HelloDone /\ LiveBudget'
    \/ \E c \in BOOLEAN : StaleHelloDone(c) /\ LiveBudget'
    \/ \E x \in Replies(gMetaServerSM) : NetReadReply(x) /\ LiveBudget'
    \/ \E x \in ContentInputs(gMetaServerSM) : NetReadContent(x) /\ LiveBudget'
    \/ \E c \in 1..MaxCmds, x \in CmdInputs(gMetaServerSM) :
          NetReadCmd(c, x) /\ LiveBudget'
    \/ \E c \in 1..MaxCmds : CmdDoneEvent(c) /\ LiveBudget'
    \/ \E x \in NetErrorInputs(gMetaServerSM) : NetError(x) /\ LiveBudget'
    \/ \E id \in 1..MaxSmOps, nr \in BOOLEAN :
          EnqueueOpEvent(id, nr) /\ LiveBudget'
    \/ SmShutdown({}) /\ LiveBudget'

SmLiveSpec == Init /\ [][SmLiveNext]_vars /\ SmFairness

\* The op is in mDispatchedOps.
Dispatched(id) == \E e \in gMetaServerSM.mDispatchedOps : e[2] = id

\* The op has left mDispatchedOps and SubmitOpResponse was called for it.
Completed(id) ==
    /\ ~Dispatched(id)
    /\ gMetaServerSM.completions[id] # <<>>

\* C14: every op inserted into mDispatchedOps eventually leaves it and is
\* completed, as long as the process lives (and, in the model, while a
\* disconnect is within the budget of generations).
C14_DispatchedOpCompletes ==
    \A id \in OpIds :
        (Dispatched(id) /\ gMetaServerSM.mGenerationCount < MaxLiveGen)
            ~> (Completed(id) \/ gMetaServerSM.smFault # "none")
\* ------------------------------------------- MetaServerSM, the rpc format
\* The replies the server can send, written with the keys of the long
\* format (Cseq), of the short format (c), of both, or of neither.
FmtReplies(s) ==
    {[x EXCEPT !.m.hasCseq = a, !.m.hasC = b] :
        x \in Replies(s), a \in BOOLEAN, b \in BOOLEAN}

\* The format is followed over the connections of one run, without
\* CorruptChunkOp notifications.
MaxFmtSeq == 4
FmtBudget ==
    /\ gMetaServerSM.mCmdSeq <= MaxFmtSeq
    /\ FreeCorruptIds(gMetaServerSM) = CorruptIds

FmtNext ==
    \/ \E a \in BOOLEAN : SmSetParameters(a) /\ FmtBudget'
    \/ \E r \in BOOLEAN : Elapse(r) /\ FmtBudget'
    \/ \E x \in TimeoutInputs(gMetaServerSM) : SmTimeout(x) /\ FmtBudget'
    \/ \E e \in HelloEnvs(gMetaServerSM) : NetWrote(e) /\ FmtBudget'
    \/ HelloDone /\ FmtBudget'
    \/ \E c \in BOOLEAN : StaleHelloDone(c) /\ FmtBudget'
    \/ \E x \in FmtReplies(gMetaServerSM) : NetReadReply(x) /\ FmtBudget'
    \/ \E x \in ContentInputs(gMetaServerSM) : NetReadContent(x) /\ FmtBudget'
    \/ \E c \in 1..MaxCmds, x \in CmdInputs(gMetaServerSM) :
          NetReadCmd(c, x) /\ FmtBudget'
    \/ \E c \in 1..MaxCmds : CmdDoneEvent(c) /\ FmtBudget'
    \/ \E x \in NetErrorInputs(gMetaServerSM) : NetError(x) /\ FmtBudget'
    \/ \E id \in 1..MaxSmOps, nr \in BOOLEAN :
          EnqueueOpEvent(id, nr) /\ FmtBudget'
    \/ SmShutdown({}) /\ FmtBudget'

FmtSpec == Init /\ [][FmtNext]_vars

\* The hello or auth op in flight asked for the short format.
ShortFormatRequested(s) ==
    \/ s.mHelloOp # NoHello /\ s.mHelloOp.reqShortRpcFmtFlag
    \/ s.mAuthOp # 0 /\ s.authReqShortRpcFmtFlag

\* C31: a reply leaves the format short exactly when it was short already,
\* or it was undefined, the hello or auth op in flight asked for the short
\* format and the reply has key c and no key Cseq; the format changes to
\* short only in such a reply, and back to undefined only in Connect.
C31_FormatNegotiation ==
    /\ [](LET s == gMetaServerSM
          IN  (EventLoop /\ Readable /\ s.mOp = NoOp) =>
                \A x \in FmtReplies(s) :
                    (HandleReply(Begin, x.m, x.env).mRpcFormat = "short") <=>
                        \/ s.mRpcFormat = "short"
                        \/ /\ s.mRpcFormat = "undef"
                           /\ ShortFormatRequested(s)
                           /\ ~x.m.hasCseq /\ x.m.hasC)
    /\ [][LET s == gMetaServerSM
              t == gMetaServerSM'
          IN  (t.mRpcFormat # s.mRpcFormat /\ t.smFault = "none") =>
                IF t.mRpcFormat = "short"
                THEN /\ s.mRpcFormat = "undef" /\ ShortFormatRequested(s)
                     /\ Readable /\ s.mOp = NoOp
                ELSE t.mRpcFormat = "undef" /\ t.connectCalled]_vars

\* The handshake was completed in the short format.
C31_Witness ==
    /\ gMetaServerSM.mRpcFormat = "short"
    /\ IsUp(gMetaServerSM)
    /\ gMetaServerSM.smFault = "none"

\* ------------------------------------------------- MetaDataStore, liveness
\* The store is running: one file and the reads of the first worker start;
\* Shutdown is not called.
StoreLiveBudget == Cardinality(registered) <= MaxLifeFiles

StoreLiveNext ==
    \/ \E k \in 0..MaxKeep, t \in ThreadCounts :
          SetParameters(k, t) /\ UNCHANGED sideVars
    \/ \E s \in Seqs :
          RegisterCheckpoint(s) /\ StoreLiveBudget' /\ UNCHANGED sideVars
    \/ \E s \in Seqs, e \in Seqs :
          RegisterLogSegment(s, e) /\ StoreLiveBudget' /\ UNCHANGED sideVars
    \/ Start /\ UNCHANGED sideVars
    \/ \E cf \in BOOLEAN, s \in -1..MaxSeq, p \in ReadPositions :
          OpsLeft /\ Handle(cf, s, p) /\ UNCHANGED sideVars
    \/ \E w \in WorkerIds : WorkerEnter(w) /\ UNCHANGED sideVars
    \/ \E w \in WorkerIds : WorkerRun(w) /\ UNCHANGED sideVars
    \/ \E w \in WorkerIds, r \in {"ok", "openFail", "readFail"}, c \in BOOLEAN :
          WorkerIo(w, r, c) /\ UNCHANGED sideVars
    \/ \E w \in WorkerIds, c \in BOOLEAN : WorkerIoDone(w, c) /\ UNCHANGED sideVars
    \/ \E w \in WorkerIds : WorkerPass(w) /\ UNCHANGED sideVars
    \/ \E w \in WorkerIds : WorkerCleanup(w) /\ UNCHANGED sideVars
    \/ \E d \in ClockSteps : Timeout(d) /\ UNCHANGED sideVars

\* One step of the thread of worker w, whichever Run is at.
WorkerStep(w) ==
    /\ \/ WorkerEnter(w)
       \/ WorkerRun(w)
       \/ \E r \in {"ok", "openFail", "readFail"}, c \in BOOLEAN : WorkerIo(w, r, c)
       \/ \E c \in BOOLEAN : WorkerIoDone(w, c)
       \/ WorkerPass(w)
       \/ WorkerCleanup(w)
    /\ UNCHANGED sideVars

\* The tick of the reactor.
ReactorTick == (\E d \in ClockSteps : Timeout(d)) /\ UNCHANGED sideVars

\* What the threads guarantee: a worker thread that can take a step of Run
\* takes it (a thread in Wait can take one only after a Notify), its system
\* calls return, the reactor calls Timeout on every tick, and a thread that
\* asks for mMutex again and again gets it (strong fairness).  The calls of
\* SetParameters, Register*, Start and Handle are up to the caller.
StoreFairness ==
    /\ \A w \in WorkerIds : SF_vars(WorkerStep(w))
    /\ SF_vars(ReactorTick)

StoreLiveSpec == Init /\ [][StoreLiveNext]_vars /\ StoreFairness

\* The read is with the store: Handle accepted it and Timeout has not yet
\* handed it back.
WithStore(id) == id \in DOMAIN ops

\* Timeout has handed the read back.
HandedBack(id) == id \in QueueOps(submitted)

\* C34: every read that Handle accepts is eventually handed back by the
\* reactor tick, unless the program stops on a failed assertion or a crash,
\* with no further call of Handle, SetParameters or Register*.
C34_AcceptedReadHandedBack ==
    \A id \in 1..MaxOps :
        (WithStore(id) /\ fault = "none") ~> (HandedBack(id) \/ fault # "none")

====
